---- MODULE Spec2Model ----
(***************************************************************************)
(* The scalar field F_q of BLS12-381 as implemented by src/src/scalar.rs.  *)
(*                                                                         *)
(* A u64 is a sequence of four 16-bit digits, least significant first, so  *)
(* that all 64-bit and 128-bit arithmetic is exact (wrapping at 2^64 where *)
(* the code wraps) although TLC's own integers are 32 bits wide.  A Scalar *)
(* is the sequence of its four u64 limbs, self.0[i] being s[i + 1].        *)
(***************************************************************************)
EXTENDS Integers, Sequences, FiniteSets, TLC

\* The literal 0xh3_h2_h1_h0, written as the source groups its hex digits.
U64(h3, h2, h1, h0) == <<h0, h1, h2, h3>>

\* The values of the types u8, u64, [u64; 4] (the field of struct Scalar)
\* and subtle's Choice.  A Rust fn f is the TLA+ function f on these sets,
\* an argument being a value as under Rust's call by value; the body of the
\* fn is the operator fn_f.  A loop is a recursive function.
u8 == 0 .. 255
u64 == [1 .. 4 -> 0 .. 65535]
Scalar == [1 .. 4 -> u64]
Choice == 0 .. 1

ZeroU64 == U64(0, 0, 0, 0)
OneU64 == U64(0, 0, 0, 1)
MaxU64 == U64(\hffff, \hffff, \hffff, \hffff)

----------------------------------------------------------------------------
(* Bitwise operations on 16-bit digits and u64 values.                     *)

RECURSIVE BitAnd(_, _)
BitAnd(x, y) ==
  IF x = 0 \/ y = 0 THEN 0
  ELSE IF y = 65535 THEN x
  ELSE IF x = 65535 THEN y
  ELSE (x % 2) * (y % 2) + 2 * BitAnd(x \div 2, y \div 2)

RECURSIVE BitOr(_, _)
BitOr(x, y) ==
  IF x = 0 THEN y
  ELSE IF y = 0 THEN x
  ELSE (IF x % 2 = 1 \/ y % 2 = 1 THEN 1 ELSE 0) + 2 * BitOr(x \div 2, y \div 2)

\* a & b on u64
fn_And64(a, b) ==
  <<BitAnd(a[1], b[1]), BitAnd(a[2], b[2]),
    BitAnd(a[3], b[3]), BitAnd(a[4], b[4])>>

And64[a, b \in u64] == fn_And64(a, b)

\* a | b on u64
fn_Or64(a, b) ==
  <<BitOr(a[1], b[1]), BitOr(a[2], b[2]), BitOr(a[3], b[3]), BitOr(a[4], b[4])>>

Or64[a, b \in u64] == fn_Or64(a, b)

\* (e >> i) & 1 for a u64 e and 0 <= i < 64
Bit64(e, i) == (e[(i \div 16) + 1] \div (2 ^ (i % 16))) % 2

----------------------------------------------------------------------------
(* crate::util::{adc, sbb, mac}: 64-bit limb arithmetic through a 128-bit  *)
(* intermediate.  Each returns <<low 64 bits, high 64 bits>>.              *)

\* a + b + carry
fn_adc(a, b, carry) ==
  LET t1 == a[1] + b[1] + carry[1]
      t2 == a[2] + b[2] + carry[2] + (t1 \div 65536)
      t3 == a[3] + b[3] + carry[3] + (t2 \div 65536)
      t4 == a[4] + b[4] + carry[4] + (t3 \div 65536)
  IN <<<<t1 % 65536, t2 % 65536, t3 % 65536, t4 % 65536>>,
       <<t4 \div 65536, 0, 0, 0>>>>

adc[a, b, carry \in u64] == fn_adc(a, b, carry)

\* a - (b + (borrow >> 63)), wrapping in 128 bits: the high half is
\* 0xffff_ffff_ffff_ffff when the subtraction underflows, else 0.
fn_sbb(a, b, borrow) ==
  LET t1 == a[1] - b[1] - (borrow[4] \div 32768)
      t2 == a[2] - b[2] - (IF t1 < 0 THEN 1 ELSE 0)
      t3 == a[3] - b[3] - (IF t2 < 0 THEN 1 ELSE 0)
      t4 == a[4] - b[4] - (IF t3 < 0 THEN 1 ELSE 0)
  IN <<<<(t1 + 65536) % 65536, (t2 + 65536) % 65536,
         (t3 + 65536) % 65536, (t4 + 65536) % 65536>>,
       IF t4 < 0 THEN MaxU64 ELSE ZeroU64>>

sbb[a, b, borrow \in u64] == fn_sbb(a, b, borrow)

\* The low and the high byte of each digit of c.
Lo8(c) == <<c[1] % 256, c[2] % 256, c[3] % 256, c[4] % 256>>
Hi8(c) == <<c[1] \div 256, c[2] \div 256, c[3] \div 256, c[4] \div 256>>

\* Column sums of the digit product b * d (d's digits below 2^8, so that no
\* sum reaches 2^31).
Cols(b, d) ==
  <<b[1]*d[1],
    b[1]*d[2] + b[2]*d[1],
    b[1]*d[3] + b[2]*d[2] + b[3]*d[1],
    b[1]*d[4] + b[2]*d[3] + b[3]*d[2] + b[4]*d[1],
    b[2]*d[4] + b[3]*d[3] + b[4]*d[2],
    b[3]*d[4] + b[4]*d[3],
    b[4]*d[4]>>

\* a + carry + sum_k (l[k] + 256 * h[k]) * 2^(16 (k - 1)), as 8 digits.
Carry8(l, h, a, c) ==
  LET t1 == l[1] + (h[1] % 256) * 256 + a[1] + c[1]
      t2 == l[2] + (h[2] % 256) * 256 + (h[1] \div 256) + a[2] + c[2]
            + (t1 \div 65536)
      t3 == l[3] + (h[3] % 256) * 256 + (h[2] \div 256) + a[3] + c[3]
            + (t2 \div 65536)
      t4 == l[4] + (h[4] % 256) * 256 + (h[3] \div 256) + a[4] + c[4]
            + (t3 \div 65536)
      t5 == l[5] + (h[5] % 256) * 256 + (h[4] \div 256) + (t4 \div 65536)
      t6 == l[6] + (h[6] % 256) * 256 + (h[5] \div 256) + (t5 \div 65536)
      t7 == l[7] + (h[7] % 256) * 256 + (h[6] \div 256) + (t6 \div 65536)
      t8 == (h[7] \div 256) + (t7 \div 65536)
  IN <<<<t1 % 65536, t2 % 65536, t3 % 65536, t4 % 65536>>,
       <<t5 % 65536, t6 % 65536, t7 % 65536, t8 % 65536>>>>

\* a + (b * c) + carry
fn_mac(a, b, c, carry) == Carry8(Cols(b, Lo8(c)), Cols(b, Hi8(c)), a, carry)

mac[a, b, c, carry \in u64] == fn_mac(a, b, c, carry)

\* u64::wrapping_mul: the low 64 bits of a * b
fn_wrapping_mul(a, b) == mac[ZeroU64, a, b, ZeroU64][1]

wrapping_mul[a, b \in u64] == fn_wrapping_mul(a, b)

----------------------------------------------------------------------------
(* Constants.                                                              *)

\* q = 0x73eda753299d7d483339d80809a1d80553bda402fffe5bfeffffffff00000001
MODULUS ==
  <<U64(\hffff, \hffff, \h0000, \h0001),
    U64(\h53bd, \ha402, \hfffe, \h5bfe),
    U64(\h3339, \hd808, \h09a1, \hd805),
    U64(\h73ed, \ha753, \h299d, \h7d48)>>

\* INV = -(q^{-1} mod 2^64) mod 2^64
INV == U64(\hffff, \hfffe, \hffff, \hffff)

\* R = 2^256 mod q
R ==
  <<U64(\h0000, \h0001, \hffff, \hfffe),
    U64(\h5884, \hb7fa, \h0003, \h4802),
    U64(\h998c, \h4fef, \hecbc, \h4ff5),
    U64(\h1824, \hb159, \hacc5, \h056f)>>

\* R^2 = 2^512 mod q
R2 ==
  <<U64(\hc999, \he990, \hf3f2, \h9c6d),
    U64(\h2b6c, \hedcb, \h8792, \h5c23),
    U64(\h05d3, \h1496, \h7254, \h398f),
    U64(\h0748, \hd9d9, \h9f59, \hff11)>>

\* R^3 = 2^768 mod q
R3 ==
  <<U64(\hc62c, \h1807, \h439b, \h73af),
    U64(\h1b3e, \h0d18, \h8cf0, \h6990),
    U64(\h73d1, \h3c71, \hc7b5, \hf418),
    U64(\h6e2a, \h5bb9, \hc8db, \h33e9)>>

\* 2^-1
TWO_INV ==
  <<U64(\h0000, \h0000, \hffff, \hffff),
    U64(\hac42, \h5bfd, \h0001, \ha401),
    U64(\hccc6, \h27f7, \hf65e, \h27fa),
    U64(\h0c12, \h58ac, \hd662, \h82b7)>>

\* The additive identity.
ZERO == <<ZeroU64, ZeroU64, ZeroU64, ZeroU64>>

\* The multiplicative identity.
ONE == R

----------------------------------------------------------------------------
(* The Montgomery arithmetic core.                                         *)

\* Subtracts rhs from self.
fn_sub(self, rhs) ==
  LET s0 == sbb[self[1], rhs[1], ZeroU64]
      s1 == sbb[self[2], rhs[2], s0[2]]
      s2 == sbb[self[3], rhs[3], s1[2]]
      s3 == sbb[self[4], rhs[4], s2[2]]
      borrow == s3[2]
      \* borrow is the mask that conditionally adds the modulus
      d0 == adc[s0[1], And64[MODULUS[1], borrow], ZeroU64]
      d1 == adc[s1[1], And64[MODULUS[2], borrow], d0[2]]
      d2 == adc[s2[1], And64[MODULUS[3], borrow], d1[2]]
      d3 == adc[s3[1], And64[MODULUS[4], borrow], d2[2]]
  IN <<d0[1], d1[1], d2[1], d3[1]>>

sub[self, rhs \in Scalar] == fn_sub(self, rhs)

\* Adds rhs to self.
fn_add(self, rhs) ==
  LET d0 == adc[self[1], rhs[1], ZeroU64]
      d1 == adc[self[2], rhs[2], d0[2]]
      d2 == adc[self[3], rhs[3], d1[2]]
      d3 == adc[self[4], rhs[4], d2[2]]
  IN sub[<<d0[1], d1[1], d2[1], d3[1]>>, MODULUS]

add[self, rhs \in Scalar] == fn_add(self, rhs)

\* A faulty neg: the mask forgotten, so that the negation of zero is q.
fn_neg_unmasked(self) ==
  LET d0 == sbb[MODULUS[1], self[1], ZeroU64]
      d1 == sbb[MODULUS[2], self[2], d0[2]]
      d2 == sbb[MODULUS[3], self[3], d1[2]]
      d3 == sbb[MODULUS[4], self[4], d2[2]]
  IN <<d0[1], d1[1], d2[1], d3[1]>>

\* Negates self.
fn_neg(self) ==
  LET d0 == sbb[MODULUS[1], self[1], ZeroU64]
      d1 == sbb[MODULUS[2], self[2], d0[2]]
      d2 == sbb[MODULUS[3], self[3], d1[2]]
      d3 == sbb[MODULUS[4], self[4], d2[2]]
      \* zero if self was zero, u64::MAX otherwise
      mask == IF Or64[Or64[self[1], self[2]], Or64[self[3], self[4]]] = ZeroU64
              THEN sbb[OneU64, OneU64, ZeroU64][1]
              ELSE sbb[ZeroU64, OneU64, ZeroU64][1]
  IN <<And64[d0[1], mask], And64[d1[1], mask],
       And64[d2[1], mask], And64[d3[1], mask]>>

neg[self \in Scalar] == fn_neg(self)

\* Doubles this field element.
fn_double(self) == add[self, self]

double[self \in Scalar] == fn_double(self)

\* a << 1 and a >> 63 on u64
Shl1(a) ==
  <<(2 * a[1]) % 65536,
    (2 * a[2] + (a[1] \div 32768)) % 65536,
    (2 * a[3] + (a[2] \div 32768)) % 65536,
    (2 * a[4] + (a[3] \div 32768)) % 65536>>
Shr63(a) == <<a[4] \div 32768, 0, 0, 0>>

\* The bodies of montgomery_reduce, mul and square are sequences of let
\* statements over u64 names.  A frame binds every name a body reads or
\* binds, spelt as in the source ("_" is the discarded half of a pair), and
\* a statement takes the frame before it to the frame after it, so that a
\* name bound again shadows its earlier value.
Names ==
  {"r0", "r1", "r2", "r3", "r4", "r5", "r6", "r7", "carry", "carry2", "k",
   "_", "0", "INV",
   "MODULUS.0[0]", "MODULUS.0[1]", "MODULUS.0[2]", "MODULUS.0[3]",
   "self.0[0]", "self.0[1]", "self.0[2]", "self.0[3]",
   "rhs.0[0]", "rhs.0[1]", "rhs.0[2]", "rhs.0[3]"}

Frame == [Names -> u64]

\* The frame on entry to a body with the parameters self, rhs and r0 .. r7
\* (r[i + 1] is ri; a parameter the fn does not have is bound to zero and
\* is not read).
frame(self, rhs, r) ==
  [v \in Names |->
     CASE v = "r0" -> r[1] [] v = "r1" -> r[2] [] v = "r2" -> r[3]
       [] v = "r3" -> r[4] [] v = "r4" -> r[5] [] v = "r5" -> r[6]
       [] v = "r6" -> r[7] [] v = "r7" -> r[8]
       [] v = "INV" -> INV
       [] v = "MODULUS.0[0]" -> MODULUS[1] [] v = "MODULUS.0[1]" -> MODULUS[2]
       [] v = "MODULUS.0[2]" -> MODULUS[3] [] v = "MODULUS.0[3]" -> MODULUS[4]
       [] v = "self.0[0]" -> self[1] [] v = "self.0[1]" -> self[2]
       [] v = "self.0[2]" -> self[3] [] v = "self.0[3]" -> self[4]
       [] v = "rhs.0[0]" -> rhs[1] [] v = "rhs.0[1]" -> rhs[2]
       [] v = "rhs.0[2]" -> rhs[3] [] v = "rhs.0[3]" -> rhs[4]
       [] OTHER -> ZeroU64]

\* The statements, as data:
\*   let (x, y) = mac(a, b, c, carry);      let (x, y) = adc(a, b, carry);
\*   let x = a.wrapping_mul(b);             let x = a >> 63;
\*   let x = (a << 1) | (b >> 63);          let x = a << 1;
Mac(x, y, a, b, c, carry) == <<"mac", x, y, a, b, c, carry>>
Adc(x, y, a, b, carry) == <<"adc", x, y, a, b, carry>>
WrappingMul(x, a, b) == <<"wrapping_mul", x, a, b>>
Shr63To(x, a) == <<">>", x, a>>
Shl1OrShr63To(x, a, b) == <<"<<|>>", x, a, b>>
Shl1To(x, a) == <<"<<", x, a>>

\* let x = v;
let1[s \in Frame, x \in Names, v \in u64] == [s EXCEPT ![x] = v]

\* let (x, y) = p;
let2[s \in Frame, x, y \in Names, p \in u64 \X u64] ==
  [s EXCEPT ![x] = p[1], ![y] = p[2]]

\* The frame after the statement c in the frame s.
fn_let(s, c) ==
  CASE c[1] = "mac" ->
         let2[s, c[2], c[3], mac[s[c[4]], s[c[5]], s[c[6]], s[c[7]]]]
    [] c[1] = "adc" -> let2[s, c[2], c[3], adc[s[c[4]], s[c[5]], s[c[6]]]]
    [] c[1] = "wrapping_mul" ->
         let1[s, c[2], wrapping_mul[s[c[3]], s[c[4]]]]
    [] c[1] = ">>" -> let1[s, c[2], Shr63(s[c[3]])]
    [] c[1] = "<<|>>" -> let1[s, c[2], Or64[Shl1(s[c[3]]), Shr63(s[c[4]])]]
    [] c[1] = "<<" -> let1[s, c[2], Shl1(s[c[3]])]

montgomery_reduce_body ==
  <<WrappingMul("k", "r0", "INV"),
    Mac("_", "carry", "r0", "k", "MODULUS.0[0]", "0"),
    Mac("r1", "carry", "r1", "k", "MODULUS.0[1]", "carry"),
    Mac("r2", "carry", "r2", "k", "MODULUS.0[2]", "carry"),
    Mac("r3", "carry", "r3", "k", "MODULUS.0[3]", "carry"),
    Adc("r4", "carry2", "r4", "0", "carry"),

    WrappingMul("k", "r1", "INV"),
    Mac("_", "carry", "r1", "k", "MODULUS.0[0]", "0"),
    Mac("r2", "carry", "r2", "k", "MODULUS.0[1]", "carry"),
    Mac("r3", "carry", "r3", "k", "MODULUS.0[2]", "carry"),
    Mac("r4", "carry", "r4", "k", "MODULUS.0[3]", "carry"),
    Adc("r5", "carry2", "r5", "carry2", "carry"),

    WrappingMul("k", "r2", "INV"),
    Mac("_", "carry", "r2", "k", "MODULUS.0[0]", "0"),
    Mac("r3", "carry", "r3", "k", "MODULUS.0[1]", "carry"),
    Mac("r4", "carry", "r4", "k", "MODULUS.0[2]", "carry"),
    Mac("r5", "carry", "r5", "k", "MODULUS.0[3]", "carry"),
    Adc("r6", "carry2", "r6", "carry2", "carry"),

    WrappingMul("k", "r3", "INV"),
    Mac("_", "carry", "r3", "k", "MODULUS.0[0]", "0"),
    Mac("r4", "carry", "r4", "k", "MODULUS.0[1]", "carry"),
    Mac("r5", "carry", "r5", "k", "MODULUS.0[2]", "carry"),
    Mac("r6", "carry", "r6", "k", "MODULUS.0[3]", "carry"),
    Adc("r7", "_", "r7", "carry2", "carry")>>

\* Schoolbook multiplication
mul_body ==
  <<Mac("r0", "carry", "0", "self.0[0]", "rhs.0[0]", "0"),
    Mac("r1", "carry", "0", "self.0[0]", "rhs.0[1]", "carry"),
    Mac("r2", "carry", "0", "self.0[0]", "rhs.0[2]", "carry"),
    Mac("r3", "r4", "0", "self.0[0]", "rhs.0[3]", "carry"),

    Mac("r1", "carry", "r1", "self.0[1]", "rhs.0[0]", "0"),
    Mac("r2", "carry", "r2", "self.0[1]", "rhs.0[1]", "carry"),
    Mac("r3", "carry", "r3", "self.0[1]", "rhs.0[2]", "carry"),
    Mac("r4", "r5", "r4", "self.0[1]", "rhs.0[3]", "carry"),

    Mac("r2", "carry", "r2", "self.0[2]", "rhs.0[0]", "0"),
    Mac("r3", "carry", "r3", "self.0[2]", "rhs.0[1]", "carry"),
    Mac("r4", "carry", "r4", "self.0[2]", "rhs.0[2]", "carry"),
    Mac("r5", "r6", "r5", "self.0[2]", "rhs.0[3]", "carry"),

    Mac("r3", "carry", "r3", "self.0[3]", "rhs.0[0]", "0"),
    Mac("r4", "carry", "r4", "self.0[3]", "rhs.0[1]", "carry"),
    Mac("r5", "carry", "r5", "self.0[3]", "rhs.0[2]", "carry"),
    Mac("r6", "r7", "r6", "self.0[3]", "rhs.0[3]", "carry")>>

square_body ==
  <<Mac("r1", "carry", "0", "self.0[0]", "self.0[1]", "0"),
    Mac("r2", "carry", "0", "self.0[0]", "self.0[2]", "carry"),
    Mac("r3", "r4", "0", "self.0[0]", "self.0[3]", "carry"),

    Mac("r3", "carry", "r3", "self.0[1]", "self.0[2]", "0"),
    Mac("r4", "r5", "r4", "self.0[1]", "self.0[3]", "carry"),

    Mac("r5", "r6", "r5", "self.0[2]", "self.0[3]", "0"),

    Shr63To("r7", "r6"),
    Shl1OrShr63To("r6", "r6", "r5"),
    Shl1OrShr63To("r5", "r5", "r4"),
    Shl1OrShr63To("r4", "r4", "r3"),
    Shl1OrShr63To("r3", "r3", "r2"),
    Shl1OrShr63To("r2", "r2", "r1"),
    Shl1To("r1", "r1"),

    Mac("r0", "carry", "0", "self.0[0]", "self.0[0]", "0"),
    Adc("r1", "carry", "0", "r1", "carry"),
    Mac("r2", "carry", "r2", "self.0[1]", "self.0[1]", "carry"),
    Adc("r3", "carry", "0", "r3", "carry"),
    Mac("r4", "carry", "r4", "self.0[2]", "self.0[2]", "carry"),
    Adc("r5", "carry", "0", "r5", "carry"),
    Mac("r6", "carry", "r6", "self.0[3]", "self.0[3]", "carry"),
    Adc("r7", "_", "0", "r7", "carry")>>

\* Faulty bodies: the last statement of mul adds no carry.
body_carry_lost(f) ==
  CASE f = "montgomery_reduce" -> montgomery_reduce_body
    [] f = "mul" ->
         [mul_body EXCEPT
            ![16] = Mac("r6", "r7", "r6", "self.0[3]", "rhs.0[3]", "0")]
    [] f = "square" -> square_body

\* Faulty bodies: the second round of montgomery_reduce does not add the
\* carry2 of the first.
body_carry2_lost(f) ==
  CASE f = "montgomery_reduce" ->
         [montgomery_reduce_body EXCEPT
            ![12] = Adc("r5", "carry2", "r5", "0", "carry")]
    [] f = "mul" -> mul_body
    [] f = "square" -> square_body

\* The body of the fn named f.
body(f) ==
  CASE f = "montgomery_reduce" -> montgomery_reduce_body
    [] f = "mul" -> mul_body
    [] f = "square" -> square_body

let[s \in Frame, f \in {"montgomery_reduce", "mul", "square"},
    n \in 1 .. 24] ==
  fn_let(s, body(f)[n])

\* Statements lo .. hi of the body of f in sequence (the range is halved so
\* that the evaluation nests 5 deep).
lets[s \in Frame, f \in {"montgomery_reduce", "mul", "square"},
     lo, hi \in 1 .. 24] ==
  IF lo = hi THEN let[s, f, lo]
  ELSE lets[lets[s, f, lo, (lo + hi) \div 2], f, ((lo + hi) \div 2) + 1, hi]

\* A faulty return of montgomery_reduce: the final subtraction of the
\* modulus forgotten.
fn_montgomery_reduce_ret_unreduced(s) == <<s["r4"], s["r5"], s["r6"], s["r7"]>>

\* The returned expression of montgomery_reduce.  Result may be within
\* MODULUS of the correct value.
fn_montgomery_reduce_ret(s) ==
  sub[<<s["r4"], s["r5"], s["r6"], s["r7"]>>, MODULUS]

montgomery_reduce_ret[s \in Frame] == fn_montgomery_reduce_ret(s)

fn_montgomery_reduce(r0, r1, r2, r3, r4, r5, r6, r7) ==
  montgomery_reduce_ret[
    lets[frame(ZERO, ZERO, <<r0, r1, r2, r3, r4, r5, r6, r7>>),
         "montgomery_reduce", 1, Len(montgomery_reduce_body)]]

montgomery_reduce[r0, r1, r2, r3, r4, r5, r6, r7 \in u64] ==
  fn_montgomery_reduce(r0, r1, r2, r3, r4, r5, r6, r7)

\* The returned expression of mul and of square:
\* Scalar::montgomery_reduce(r0, r1, r2, r3, r4, r5, r6, r7)
fn_reduce_ret(s) ==
  montgomery_reduce[s["r0"], s["r1"], s["r2"], s["r3"],
                    s["r4"], s["r5"], s["r6"], s["r7"]]

reduce_ret[s \in Frame] == fn_reduce_ret(s)

\* No ri is bound on entry to mul and square.
Unbound == <<ZeroU64, ZeroU64, ZeroU64, ZeroU64,
             ZeroU64, ZeroU64, ZeroU64, ZeroU64>>

\* A faulty mul: self read where rhs is meant.
fn_mul_self_for_rhs(self, rhs) ==
  reduce_ret[lets[frame(self, self, Unbound), "mul", 1, Len(mul_body)]]

\* Multiplies rhs by self.
fn_mul(self, rhs) ==
  reduce_ret[lets[frame(self, rhs, Unbound), "mul", 1, Len(mul_body)]]

mul[self, rhs \in Scalar] == fn_mul(self, rhs)

\* A faulty square: the last statement, which adds the last carry to r7, left
\* out.
fn_square_carry_dropped(self) ==
  reduce_ret[
    lets[frame(self, ZERO, Unbound), "square", 1, Len(square_body) - 1]]

\* Squares this element.
fn_square(self) ==
  reduce_ret[lets[frame(self, ZERO, Unbound), "square", 1, Len(square_body)]]

square[self \in Scalar] == fn_square(self)

----------------------------------------------------------------------------
(* Constant-time predicates and selection (subtle's Choice is 0 or 1).     *)

\* A faulty ct_eq: the last comparison takes limb 2 of other for limb 3.
fn_ct_eq_limb_slip(self, other) ==
  (IF self[1] = other[1] THEN 1 ELSE 0)
  * (IF self[2] = other[2] THEN 1 ELSE 0)
  * (IF self[3] = other[3] THEN 1 ELSE 0)
  * (IF self[4] = other[3] THEN 1 ELSE 0)

\* ConstantTimeEq: all four limbs are compared and the results and-ed.
fn_ct_eq(self, other) ==
  (IF self[1] = other[1] THEN 1 ELSE 0)
  * (IF self[2] = other[2] THEN 1 ELSE 0)
  * (IF self[3] = other[3] THEN 1 ELSE 0)
  * (IF self[4] = other[4] THEN 1 ELSE 0)

ct_eq[self, other \in Scalar] == fn_ct_eq(self, other)

\* PartialEq::eq: bool::from(self.ct_eq(other))
fn_eq(self, other) == ct_eq[self, other] = 1

\* ConditionallySelectable: b when choice is 1, a when it is 0, limb by limb.
fn_conditional_select(a, b, choice) ==
  <<IF choice = 1 THEN b[1] ELSE a[1],
    IF choice = 1 THEN b[2] ELSE a[2],
    IF choice = 1 THEN b[3] ELSE a[3],
    IF choice = 1 THEN b[4] ELSE a[4]>>

conditional_select[a, b \in Scalar, choice \in Choice] ==
  fn_conditional_select(a, b, choice)

\* subtle::CtOption::new(value, is_some)
CtOption(value, is_some) == [value |-> value, is_some |-> is_some]

----------------------------------------------------------------------------
(* Exponentiation.  The 256 loop iterations are numbered k = 0 .. 255 in   *)
(* the order the loops run them: limbs of `by` last to first, bits of a    *)
(* limb from 63 down to 0.                                                 *)

\* (*e >> i) & 1 in iteration k
pow_bit(by, k) == Bit64(by[4 - (k \div 64)], 63 - (k % 64))

\* A faulty iteration of pow: the operands of the selection exchanged.
fn_pow_iter_exchanged(res, self, bit) ==
  LET sq == square[res]
      tmp == mul[sq, self]
  IN conditional_select[tmp, sq, bit]

\* One iteration of pow's loop body.
fn_pow_iter(res, self, bit) ==
  LET sq == square[res]
      tmp == mul[sq, self]
  IN conditional_select[sq, tmp, bit]

pow_iter[res, self \in Scalar, bit \in Choice] == fn_pow_iter(res, self, bit)

\* A faulty iteration of pow_vartime: the multiplication made on a bit 0.
fn_pow_vartime_iter_inverted(res, self, bit) ==
  LET sq == square[res]
  IN IF bit = 0 THEN mul[sq, self] ELSE sq

\* One iteration of pow_vartime's loop body.
fn_pow_vartime_iter(res, self, bit) ==
  LET sq == square[res]
  IN IF bit = 1 THEN mul[sq, self] ELSE sq

pow_vartime_iter[res, self \in Scalar, bit \in Choice] ==
  fn_pow_vartime_iter(res, self, bit)

\* The inner loop, for i in (0..64).rev(), for the bits hi down to lo of the
\* limb e.  The range is halved so that the evaluation nests 6 deep.
pow_bits[res, self \in Scalar, e \in u64, hi, lo \in 0 .. 63] ==
  IF hi = lo THEN pow_iter[res, self, Bit64(e, hi)]
  ELSE pow_bits[pow_bits[res, self, e, hi, ((hi + lo) \div 2) + 1],
                self, e, (hi + lo) \div 2, lo]

\* The outer loop, for e in by.iter().rev(), from limb j down to limb 1.
pow_limbs[res, self, by \in Scalar, j \in 1 .. 4] ==
  IF j = 1 THEN pow_bits[res, self, by[1], 63, 0]
  ELSE pow_limbs[pow_bits[res, self, by[j], 63, 0], self, by, j - 1]

\* Exponentiates self by `by`, a little-endian order integer exponent.
fn_pow(self, by) == pow_limbs[ONE, self, by, 4]

pow[self, by \in Scalar] == fn_pow(self, by)

pow_vartime_bits[res, self \in Scalar, e \in u64, hi, lo \in 0 .. 63] ==
  IF hi = lo THEN pow_vartime_iter[res, self, Bit64(e, hi)]
  ELSE pow_vartime_bits[
         pow_vartime_bits[res, self, e, hi, ((hi + lo) \div 2) + 1],
         self, e, (hi + lo) \div 2, lo]

pow_vartime_limbs[res, self, by \in Scalar, j \in 1 .. 4] ==
  IF j = 1 THEN pow_vartime_bits[res, self, by[1], 63, 0]
  ELSE pow_vartime_limbs[pow_vartime_bits[res, self, by[j], 63, 0],
                         self, by, j - 1]

\* Exponentiates self by `by`, a little-endian order integer exponent.
\* The exponent is not handled in constant time.
fn_pow_vartime(self, by) == pow_vartime_limbs[ONE, self, by, 4]

pow_vartime[self, by \in Scalar] == fn_pow_vartime(self, by)

\* The field operations that one iteration executes, in order.  A faulty
\* iteration of pow: the multiplication and the assignment skipped on a
\* bit 0.
fn_pow_iter_ops_skipping(bit) ==
  IF bit = 1 THEN <<"square", "mul", "conditional_assign">> ELSE <<"square">>

\* pow: res = res.square(); tmp *= self; res.conditional_assign(&tmp, bit)
fn_pow_iter_ops(bit) == <<"square", "mul", "conditional_assign">>

\* pow_vartime: res = res.square(); if bit == 1 { res.mul_assign(self); }
fn_pow_vartime_iter_ops(bit) ==
  IF bit = 1 THEN <<"square", "mul">> ELSE <<"square">>

----------------------------------------------------------------------------
(* Inversion by the fixed addition chain.                                  *)

\* The names of invert's local variables.
invert_names ==
  {"self", "t0", "t1", "t2", "t3", "t4", "t5", "t6", "t7", "t8", "t9",
   "t11", "t12", "t13", "t14", "t15", "t16", "t17"}

\* for _ in 0..num_times { *n = n.square(); }
square_assign_multi[n \in Scalar, num_times \in Nat] ==
  IF num_times = 0 THEN n ELSE square_assign_multi[square[n], num_times - 1]

\* The statements of invert's body, as data:
\*   x = a.square();      x = a * b;  (x *= b is x = x * b)
\*   square_assign_multi(&mut x, n);
SquareTo(x, a) == <<"square", x, a>>
MulTo(x, a, b) == <<"mul", x, a, b>>
SquareAssignMulti(x, n) == <<"square_assign_multi", x, n>>

\* found using https://github.com/kwantam/addchain
invert_body ==
  <<SquareTo("t0", "self"), MulTo("t1", "t0", "self"), SquareTo("t16", "t0"),
    SquareTo("t6", "t16"), MulTo("t5", "t6", "t0"), MulTo("t0", "t6", "t16"),
    MulTo("t12", "t5", "t16"), SquareTo("t2", "t6"), MulTo("t7", "t5", "t6"),
    MulTo("t15", "t0", "t5"), SquareTo("t17", "t12"),
    MulTo("t1", "t1", "t17"), MulTo("t3", "t7", "t2"),
    MulTo("t8", "t1", "t17"), MulTo("t4", "t8", "t2"),
    MulTo("t9", "t8", "t7"), MulTo("t7", "t4", "t5"),
    MulTo("t11", "t4", "t17"), MulTo("t5", "t9", "t17"),
    MulTo("t14", "t7", "t15"), MulTo("t13", "t11", "t12"),
    MulTo("t12", "t11", "t17"), MulTo("t15", "t15", "t12"),
    MulTo("t16", "t16", "t15"), MulTo("t3", "t3", "t16"),
    MulTo("t17", "t17", "t3"), MulTo("t0", "t0", "t17"),
    MulTo("t6", "t6", "t0"), MulTo("t2", "t2", "t6"),
    SquareAssignMulti("t0", 8), MulTo("t0", "t0", "t17"),
    SquareAssignMulti("t0", 9), MulTo("t0", "t0", "t16"),
    SquareAssignMulti("t0", 9), MulTo("t0", "t0", "t15"),
    SquareAssignMulti("t0", 9), MulTo("t0", "t0", "t15"),
    SquareAssignMulti("t0", 7), MulTo("t0", "t0", "t14"),
    SquareAssignMulti("t0", 7), MulTo("t0", "t0", "t13"),
    SquareAssignMulti("t0", 10), MulTo("t0", "t0", "t12"),
    SquareAssignMulti("t0", 9), MulTo("t0", "t0", "t11"),
    SquareAssignMulti("t0", 8), MulTo("t0", "t0", "t8"),
    SquareAssignMulti("t0", 8), MulTo("t0", "t0", "self"),
    SquareAssignMulti("t0", 14), MulTo("t0", "t0", "t9"),
    SquareAssignMulti("t0", 10), MulTo("t0", "t0", "t8"),
    SquareAssignMulti("t0", 15), MulTo("t0", "t0", "t7"),
    SquareAssignMulti("t0", 10), MulTo("t0", "t0", "t6"),
    SquareAssignMulti("t0", 8), MulTo("t0", "t0", "t5"),
    SquareAssignMulti("t0", 16), MulTo("t0", "t0", "t3"),
    SquareAssignMulti("t0", 8), MulTo("t0", "t0", "t2"),
    SquareAssignMulti("t0", 7), MulTo("t0", "t0", "t4"),
    SquareAssignMulti("t0", 9), MulTo("t0", "t0", "t2"),
    SquareAssignMulti("t0", 8), MulTo("t0", "t0", "t3"),
    SquareAssignMulti("t0", 8), MulTo("t0", "t0", "t2"),
    SquareAssignMulti("t0", 8), MulTo("t0", "t0", "t2"),
    SquareAssignMulti("t0", 8), MulTo("t0", "t0", "t2"),
    SquareAssignMulti("t0", 8), MulTo("t0", "t0", "t3"),
    SquareAssignMulti("t0", 8), MulTo("t0", "t0", "t2"),
    SquareAssignMulti("t0", 8), MulTo("t0", "t0", "t2"),
    SquareAssignMulti("t0", 5), MulTo("t0", "t0", "t1"),
    SquareAssignMulti("t0", 5), MulTo("t0", "t0", "t1")>>

\* A faulty statement of invert: square_assign_multi squares once too few.
fn_invert_let_short(s, c) ==
  CASE c[1] = "square" -> [s EXCEPT ![c[2]] = square[s[c[3]]]]
    [] c[1] = "mul" -> [s EXCEPT ![c[2]] = mul[s[c[3]], s[c[4]]]]
    [] c[1] = "square_assign_multi" ->
         [s EXCEPT ![c[2]] = square_assign_multi[s[c[2]], c[3] - 1]]

\* The locals after the statement c in the locals s (a local not yet
\* declared holds ZERO and is not read).
fn_invert_let(s, c) ==
  CASE c[1] = "square" -> [s EXCEPT ![c[2]] = square[s[c[3]]]]
    [] c[1] = "mul" -> [s EXCEPT ![c[2]] = mul[s[c[3]], s[c[4]]]]
    [] c[1] = "square_assign_multi" ->
         [s EXCEPT ![c[2]] = square_assign_multi[s[c[2]], c[3]]]

invert_let[s \in [invert_names -> Scalar], n \in 1 .. Len(invert_body)] ==
  fn_invert_let(s, invert_body[n])

\* Statements lo .. hi in sequence (the range is halved, as in pow_bits).
invert_lets[s \in [invert_names -> Scalar],
            lo, hi \in 1 .. Len(invert_body)] ==
  IF lo = hi THEN invert_let[s, lo]
  ELSE invert_lets[invert_lets[s, lo, (lo + hi) \div 2],
                   ((lo + hi) \div 2) + 1, hi]

\* A faulty return of invert: the negation of the comparison forgotten.
fn_invert_ret_not_negated(s) == CtOption(s["t0"], ct_eq[s["self"], ZERO])

\* The returned expression: CtOption::new(t0, !self.ct_eq(&Self::ZERO))
fn_invert_ret(s) == CtOption(s["t0"], 1 - ct_eq[s["self"], ZERO])

invert_ret[s \in [invert_names -> Scalar]] == fn_invert_ret(s)

\* A faulty invert: the last window of the chain (a square_assign_multi and a
\* multiplication) left out.
fn_invert_truncated(self) ==
  invert_ret[
    invert_lets[[v \in invert_names |-> IF v = "self" THEN self ELSE ZERO],
                1, Len(invert_body) - 2]]

\* Computes the multiplicative inverse of this element, failing if the
\* element is zero.
fn_invert(self) ==
  invert_ret[
    invert_lets[[v \in invert_names |-> IF v = "self" THEN self ELSE ZERO],
                1, Len(invert_body)]]

invert[self \in Scalar] == fn_invert(self)

\* The field operations that the statement c executes.
invert_let_ops(c) ==
  CASE c[1] = "square" -> <<"square">>
    [] c[1] = "mul" -> <<"mul">>
    [] c[1] = "square_assign_multi" -> [j \in 1 .. c[3] |-> "square"]

\* Those of the statements lo .. hi in sequence.
invert_lets_ops[lo, hi \in 1 .. Len(invert_body)] ==
  IF lo = hi THEN invert_let_ops(invert_body[lo])
  ELSE invert_lets_ops[lo, (lo + hi) \div 2]
       \o invert_lets_ops[((lo + hi) \div 2) + 1, hi]

\* The field operations that invert(self) executes: those of its statements
\* and the ct_eq of the returned expression.
fn_invert_ops(self) == invert_lets_ops[1, Len(invert_body)] \o <<"ct_eq">>

----------------------------------------------------------------------------
(* Boundary conversions.  A byte string is a sequence of numbers 0 .. 255. *)

\* u64::from_le_bytes and u64::from_be_bytes of the 8 bytes b[from + 1 ..
\* from + 8] (the code's slice bytes[from .. from + 8]).
u64_from_le_bytes(b, from) ==
  <<b[from + 1] + 256 * b[from + 2], b[from + 3] + 256 * b[from + 4],
    b[from + 5] + 256 * b[from + 6], b[from + 7] + 256 * b[from + 8]>>

u64_from_be_bytes(b, from) ==
  <<b[from + 8] + 256 * b[from + 7], b[from + 6] + 256 * b[from + 5],
    b[from + 4] + 256 * b[from + 3], b[from + 2] + 256 * b[from + 1]>>

\* u64::to_le_bytes and u64::to_be_bytes
u64_to_le_bytes(a) ==
  <<a[1] % 256, a[1] \div 256, a[2] % 256, a[2] \div 256,
    a[3] % 256, a[3] \div 256, a[4] % 256, a[4] \div 256>>

u64_to_be_bytes(a) ==
  <<a[4] \div 256, a[4] % 256, a[3] \div 256, a[3] % 256,
    a[2] \div 256, a[2] % 256, a[1] \div 256, a[1] % 256>>

\* Attempts to convert a big-endian byte representation of a scalar into a
\* Scalar, failing if the input is not canonical.
fn_from_be_bytes(bytes) ==
  LET tmp == <<u64_from_be_bytes(bytes, 24), u64_from_be_bytes(bytes, 16),
               u64_from_be_bytes(bytes, 8), u64_from_be_bytes(bytes, 0)>>
      \* Try to subtract the modulus
      b0 == sbb[tmp[1], MODULUS[1], ZeroU64]
      b1 == sbb[tmp[2], MODULUS[2], b0[2]]
      b2 == sbb[tmp[3], MODULUS[3], b1[2]]
      b3 == sbb[tmp[4], MODULUS[4], b2[2]]
      \* (borrow as u8) & 1
      is_some == b3[2][1] % 2
  IN CtOption(mul[tmp, R2], is_some)

from_be_bytes[bytes \in [1..32 -> u8]] == fn_from_be_bytes(bytes)

\* A faulty from_le_bytes: the comparison with the modulus made on the top
\* limb alone.
fn_from_le_bytes_top_limb(bytes) ==
  LET tmp == <<u64_from_le_bytes(bytes, 0), u64_from_le_bytes(bytes, 8),
               u64_from_le_bytes(bytes, 16), u64_from_le_bytes(bytes, 24)>>
      b3 == sbb[tmp[4], MODULUS[4], ZeroU64]
      is_some == b3[2][1] % 2
  IN CtOption(mul[tmp, R2], is_some)

\* Attempts to convert a little-endian byte representation of a scalar into
\* a Scalar, failing if the input is not canonical.
fn_from_le_bytes(bytes) ==
  LET tmp == <<u64_from_le_bytes(bytes, 0), u64_from_le_bytes(bytes, 8),
               u64_from_le_bytes(bytes, 16), u64_from_le_bytes(bytes, 24)>>
      b0 == sbb[tmp[1], MODULUS[1], ZeroU64]
      b1 == sbb[tmp[2], MODULUS[2], b0[2]]
      b2 == sbb[tmp[3], MODULUS[3], b1[2]]
      b3 == sbb[tmp[4], MODULUS[4], b2[2]]
      is_some == b3[2][1] % 2
  IN CtOption(mul[tmp, R2], is_some)

from_le_bytes[bytes \in [1..32 -> u8]] == fn_from_le_bytes(bytes)

\* Converts an element of Scalar into a byte representation in
\* little-endian byte order.
fn_to_le_bytes(self) ==
  LET tmp == montgomery_reduce[self[1], self[2], self[3], self[4],
                               ZeroU64, ZeroU64, ZeroU64, ZeroU64]
  IN u64_to_le_bytes(tmp[1]) \o u64_to_le_bytes(tmp[2])
     \o u64_to_le_bytes(tmp[3]) \o u64_to_le_bytes(tmp[4])

to_le_bytes[self \in Scalar] == fn_to_le_bytes(self)

\* A faulty to_be_bytes: the limbs written least significant first.
fn_to_be_bytes_limbs_le(self) ==
  LET tmp == montgomery_reduce[self[1], self[2], self[3], self[4],
                               ZeroU64, ZeroU64, ZeroU64, ZeroU64]
  IN u64_to_be_bytes(tmp[1]) \o u64_to_be_bytes(tmp[2])
     \o u64_to_be_bytes(tmp[3]) \o u64_to_be_bytes(tmp[4])

\* Converts an element of Scalar into a byte representation in big-endian
\* byte order.
fn_to_be_bytes(self) ==
  LET tmp == montgomery_reduce[self[1], self[2], self[3], self[4],
                               ZeroU64, ZeroU64, ZeroU64, ZeroU64]
  IN u64_to_be_bytes(tmp[4]) \o u64_to_be_bytes(tmp[3])
     \o u64_to_be_bytes(tmp[2]) \o u64_to_be_bytes(tmp[1])

to_be_bytes[self \in Scalar] == fn_to_be_bytes(self)

\* Converts from an integer represented in little endian into its
\* (congruent) Scalar representation.
fn_from_raw(val) == mul[val, R2]

from_raw[val \in Scalar] == fn_from_raw(val)

\* Converts this Scalar into an integer represented in little endian.
fn_to_raw(self) ==
  montgomery_reduce[self[1], self[2], self[3], self[4],
                    ZeroU64, ZeroU64, ZeroU64, ZeroU64]

to_raw[self \in Scalar] == fn_to_raw(self)

\* From<u64> (and From<u32>, val as u64) for Scalar
fn_from_u64(val) == mul[<<val, ZeroU64, ZeroU64, ZeroU64>>, R2]

from_u64[val \in u64] == fn_from_u64(val)

\* A faulty from_u512: the upper half lifted with R2, like the lower.
fn_from_u512_r2_for_r3(limbs) ==
  LET d0 == <<limbs[1], limbs[2], limbs[3], limbs[4]>>
      d1 == <<limbs[5], limbs[6], limbs[7], limbs[8]>>
  IN add[mul[d0, R2], mul[d1, R2]]

fn_from_u512(limbs) ==
  LET d0 == <<limbs[1], limbs[2], limbs[3], limbs[4]>>
      d1 == <<limbs[5], limbs[6], limbs[7], limbs[8]>>
  IN add[mul[d0, R2], mul[d1, R3]]

from_u512[limbs \in [1..8 -> u64]] == fn_from_u512(limbs)

\* Converts a 512-bit little endian integer into a Scalar by reducing by
\* the modulus.
fn_from_bytes_wide(bytes) ==
  from_u512[<<u64_from_le_bytes(bytes, 0), u64_from_le_bytes(bytes, 8),
              u64_from_le_bytes(bytes, 16), u64_from_le_bytes(bytes, 24),
              u64_from_le_bytes(bytes, 32), u64_from_le_bytes(bytes, 40),
              u64_from_le_bytes(bytes, 48), u64_from_le_bytes(bytes, 56)>>]

from_bytes_wide[bytes \in [1..64 -> u8]] == fn_from_bytes_wide(bytes)

F_2_192 ==
  <<U64(\h5947, \h6ebc, \h41b4, \h528f),
    U64(\hc5a3, \h0cb2, \h43fc, \hc152),
    U64(\h2b34, \he639, \h40cc, \hbd72),
    U64(\h1e17, \h9025, \hca24, \h7088)>>

\* A faulty from_okm: the low 24 bytes multiplied by F_2_192, not the high.
fn_from_okm_halves_exchanged(bytes) ==
  LET d0 == <<u64_from_be_bytes(bytes, 16), u64_from_be_bytes(bytes, 8),
              u64_from_be_bytes(bytes, 0), ZeroU64>>
      d1 == <<u64_from_be_bytes(bytes, 40), u64_from_be_bytes(bytes, 32),
              u64_from_be_bytes(bytes, 24), ZeroU64>>
  IN add[mul[mul[d1, R2], F_2_192], mul[d0, R2]]

\* Read from output of a KDF
fn_from_okm(bytes) ==
  LET d0 == <<u64_from_be_bytes(bytes, 16), u64_from_be_bytes(bytes, 8),
              u64_from_be_bytes(bytes, 0), ZeroU64>>
      d1 == <<u64_from_be_bytes(bytes, 40), u64_from_be_bytes(bytes, 32),
              u64_from_be_bytes(bytes, 24), ZeroU64>>
  IN add[mul[mul[d0, R2], F_2_192], mul[d1, R2]]

from_okm[bytes \in [1..48 -> u8]] == fn_from_okm(bytes)

\* A faulty body of Shr's loop: tmp doubled.
fn_shr_iter_doubled(tmp) == double[tmp]

\* The body of Shr's loop: tmp *= TWO_INV
fn_shr_iter(tmp) == mul[tmp, TWO_INV]

\* Shr<usize>: rhs multiplications by TWO_INV.
shr[self \in Scalar, rhs \in Nat] ==
  IF rhs > 0 THEN shr[fn_shr_iter(self), rhs - 1] ELSE self

----------------------------------------------------------------------------
(* Conversions from and to the unsigned integers U256, U384 and U512 of    *)
(* crypto-bigint and the byte arrays of generic-array, on a 64-bit target  *)
(* that is not wasm32.  A Uint is the sequence of its words, least         *)
(* significant first, as from_words takes them and as_words gives them.    *)

\* Uint::to_be_bytes: the words from the most significant down, each
\* big-endian.
to_be_bytes_from[n \in Seq(u64), k \in 0 .. 8] ==
  IF k = 0 THEN <<>>
  ELSE u64_to_be_bytes(n[k]) \o to_be_bytes_from[n, k - 1]

Uint_to_be_bytes(n) == to_be_bytes_from[n, Len(n)]

\* Uint::from_be_byte_array
Uint_from_be_byte_array(bytes) ==
  [k \in 1 .. (Len(bytes) \div 8) |->
     u64_from_be_bytes(bytes, Len(bytes) - 8 * k)]

\* Reduce<U512>::reduce: Self::from_u512(*n.as_words())
fn_reduce_U512(n) == from_u512[n]

\* Reduce<U384>::reduce: Self::from_okm(&n.to_be_bytes())
fn_reduce_U384(n) == from_okm[Uint_to_be_bytes(n)]

\* Reduce<U256>::reduce: the 32 big-endian bytes of n are copied to out[..32]
\* of 48 bytes 0, and out goes to from_okm.
fn_reduce_U256(n) ==
  from_okm[[j \in 1 .. 48 |->
              IF j <= 32 THEN Uint_to_be_bytes(n)[j] ELSE 0]]

\* FromUintUnchecked::from_uint_unchecked: the first four words of a U384
\* go to from_raw.
fn_from_uint_unchecked(uint) == from_raw[SubSeq(uint, 1, 4)]

\* From<U256>, From<U384> and From<U512> for Scalar
fn_from_U256(value) == fn_reduce_U256(value)

fn_from_U384(value) == fn_from_uint_unchecked(value)

fn_from_U512(value) == fn_reduce_U512(value)

\* From<GenericArray<u8, U48>> for Scalar
fn_from_GenericArray_U48(value) ==
  fn_from_uint_unchecked(Uint_from_be_byte_array(value))

\* From<Scalar> for U256, for U384 and for U512
fn_U256_from(value) == to_raw[value]

fn_U384_from(value) ==
  LET raw == to_raw[value]
  IN <<ZeroU64, ZeroU64, raw[4], raw[3], raw[2], raw[1]>>

fn_U512_from(value) ==
  LET raw == to_raw[value]
  IN <<ZeroU64, ZeroU64, ZeroU64, ZeroU64, raw[4], raw[3], raw[2], raw[1]>>

\* What a call does: it returns a value, or it panics.
Returns(value) == [kind |-> "return", value |-> value]
Panics == [kind |-> "panic", value |-> <<>>]

\* CtOption::unwrap panics on an empty option.
unwrap(o) == IF o.is_some = 1 THEN Returns(o.value) ELSE Panics

\* From<GenericArray<u8, U32>> for Scalar:
\* Self::from_be_bytes(&arr).unwrap()
fn_from_GenericArray_U32(value) == unwrap(from_be_bytes[value])

\* The value of a character as a hexadecimal digit, -1 for any other
\* character.
HexVal(c) ==
  LET lower == <<"0", "1", "2", "3", "4", "5", "6", "7", "8", "9",
                 "a", "b", "c", "d", "e", "f">>
      upper == <<"0", "1", "2", "3", "4", "5", "6", "7", "8", "9",
                 "A", "B", "C", "D", "E", "F">>
  IN IF \E v \in 1 .. 16 : lower[v] = c
     THEN (CHOOSE v \in 1 .. 16 : lower[v] = c) - 1
     ELSE IF \E v \in 1 .. 16 : upper[v] = c
     THEN (CHOOSE v \in 1 .. 16 : upper[v] = c) - 1
     ELSE -1

\* hex::decode_to_slice(data, out), for out of n bytes: an error for a string
\* of odd length, of a length other than 2 * n, or with a character that is
\* no hexadecimal digit.
hex_decode_to_slice(data, n) ==
  IF Len(data) % 2 # 0 THEN [is_ok |-> FALSE, out |-> <<>>]
  ELSE IF Len(data) \div 2 # n THEN [is_ok |-> FALSE, out |-> <<>>]
  ELSE IF \E j \in 1 .. Len(data) : HexVal(data[j]) = -1
  THEN [is_ok |-> FALSE, out |-> <<>>]
  ELSE [is_ok |-> TRUE,
        out |-> [j \in 1 .. n |->
                   16 * HexVal(data[2 * j - 1]) + HexVal(data[2 * j])]]

\* Option::<Scalar>::from(Self::from_le_bytes(&bytes))
\*   .ok_or_else(|| serde::de::Error::custom("invalid scalar"))
ok_or_invalid_scalar(bytes) ==
  IF from_le_bytes[bytes].is_some = 1
  THEN [kind |-> "Ok", value |-> from_le_bytes[bytes].value]
  ELSE [kind |-> "Err", value |-> <<>>]

\* ScalarLe::deserialize from a human-readable format that holds the string
\* hex_str: hex::decode_to_slice(hex_str, &mut bytes).unwrap() panics on an
\* error.
fn_ScalarLe_deserialize(hex_str) ==
  IF hex_decode_to_slice(hex_str, 32).is_ok
  THEN ok_or_invalid_scalar(hex_decode_to_slice(hex_str, 32).out)
  ELSE Panics

\* q >> 1
HALF_MODULUS ==
  <<U64(\h7fff, \hffff, \h8000, \h0000), U64(\ha9de, \hd201, \h7fff, \h2dff),
    U64(\h199c, \hec04, \h04d0, \hec02), U64(\h39f6, \hd3a9, \h94ce, \hbea4)>>

\* A faulty is_high: the operands of the subtraction exchanged.
fn_is_high_exchanged(self) ==
  LET b0 == sbb[self[1], HALF_MODULUS[1], ZeroU64]
      b1 == sbb[self[2], HALF_MODULUS[2], b0[2]]
      b2 == sbb[self[3], HALF_MODULUS[3], b1[2]]
      b3 == sbb[self[4], HALF_MODULUS[4], b2[2]]
  IN IF b3[2] = MaxU64 THEN 1 ELSE 0

\* IsHigh::is_high: the borrow of HALF_MODULUS - self.0, limb by limb.
fn_is_high(self) ==
  LET b0 == sbb[HALF_MODULUS[1], self[1], ZeroU64]
      b1 == sbb[HALF_MODULUS[2], self[2], b0[2]]
      b2 == sbb[HALF_MODULUS[3], self[3], b1[2]]
      b3 == sbb[HALF_MODULUS[4], self[4], b2[2]]
  IN IF b3[2] = MaxU64 THEN 1 ELSE 0

----------------------------------------------------------------------------
(* Small integers, hexadecimal views and serialization.  A u32 is the      *)
(* sequence of its two 16-bit digits, least significant first; a string is *)
(* the sequence of its characters.                                         *)

u32 == [1 .. 2 -> 0 .. 65535]

\* val as u64
as_u64(val) == <<val[1], val[2], 0, 0>>

\* A faulty From<u32>: the value not brought into Montgomery form.
fn_from_u32_not_lifted(val) == <<as_u64(val), ZeroU64, ZeroU64, ZeroU64>>

\* From<u32> for Scalar
fn_from_u32(val) == mul[<<as_u64(val), ZeroU64, ZeroU64, ZeroU64>>, R2]

\* write!(f, "{:02x}", b): the two lowercase hexadecimal digits of a byte
Format02x(b) ==
  LET digits == <<"0", "1", "2", "3", "4", "5", "6", "7", "8", "9",
                  "a", "b", "c", "d", "e", "f">>
  IN <<digits[(b \div 16) + 1], digits[(b % 16) + 1]>>

\* The loop of LowerHex::fmt over the bytes of tmp from the k-th on.
fmt_bytes[tmp \in Seq(u8), k \in 1 .. 33] ==
  IF k > Len(tmp) THEN <<>> ELSE Format02x(tmp[k]) \o fmt_bytes[tmp, k + 1]

\* A faulty LowerHex::fmt: the little-endian bytes written.
fn_LowerHex_fmt_le(self) == fmt_bytes[to_le_bytes[self], 1]

\* LowerHex::fmt, as the string written to f
fn_LowerHex_fmt(self) == fmt_bytes[to_be_bytes[self], 1]

\* Debug::fmt and Display::fmt: write!(f, "{:x}", self)
fn_Debug_fmt(self) == fn_LowerHex_fmt(self)

fn_Display_fmt(self) == fn_LowerHex_fmt(self)

\* decode_hex_into_slice(&mut buf, hex.as_bytes()) for a string of
\* 2 * Len(buf) hexadecimal digits: byte j of buf from the characters
\* 2 * j - 1 and 2 * j.
decode_hex_into_slice(buf, hex) ==
  [j \in 1 .. Len(buf) |-> 16 * HexVal(hex[2 * j - 1]) + HexVal(hex[2 * j])]

\* Scalar::from_be_hex and Scalar::from_le_hex
fn_from_be_hex(hex) ==
  from_be_bytes[decode_hex_into_slice([j \in 1 .. 32 |-> 0], hex)]

fn_from_le_hex(hex) ==
  from_le_bytes[decode_hex_into_slice([j \in 1 .. 32 |-> 0], hex)]

\* hex::encode_to_slice(bytes, &mut hexits).unwrap() and from_utf8: the
\* string of the lowercase hexadecimal digits of bytes.
hex_encode_to_slice(bytes) ==
  [j \in 1 .. 2 * Len(bytes) |->
     Format02x(bytes[(j + 1) \div 2])[2 - (j % 2)]]

\* A faulty ScalarLe::serialize: the big-endian bytes serialized.
fn_ScalarLe_serialize_be(self, is_human_readable) ==
  IF is_human_readable
  THEN [kind |-> "str", value |-> hex_encode_to_slice(to_be_bytes[self])]
  ELSE [kind |-> "tuple", value |-> to_be_bytes[self]]

\* ScalarLe::serialize: what the serializer s is given, a string when
\* s.is_human_readable() and else a tuple of bytes.len() bytes.
fn_ScalarLe_serialize(self, is_human_readable) ==
  IF is_human_readable
  THEN [kind |-> "str", value |-> hex_encode_to_slice(to_le_bytes[self])]
  ELSE [kind |-> "tuple", value |-> to_le_bytes[self]]

\* Serialize for Scalar, written by impl_serde! with to_be_bytes: for a
\* human-readable serializer the hexadecimal string of the big-endian bytes.
fn_Scalar_serialize(self) ==
  [kind |-> "str", value |-> hex_encode_to_slice(to_be_bytes[self])]

\* ScalarLe::deserialize from a format that is not human-readable and holds
\* the 32 bytes `bytes`.
fn_ScalarLe_deserialize_binary(bytes) == ok_or_invalid_scalar(bytes)

----------------------------------------------------------------------------
(* Square root.  Field::sqrt calls sqrt_tonelli_shanks of the ff crate     *)
(* with the exponent table (t - 1) / 2; the helper works on the field's    *)
(* own operations and constants S and ROOT_OF_UNITY.                       *)

\* 2^S * t = MODULUS - 1 with t odd
S == 32

\* GENERATOR^t where t * 2^s + 1 = q with t odd: a 2^s root of unity
ROOT_OF_UNITY ==
  <<U64(\hb9b5, \h8d8c, \h5f0e, \h466a), U64(\h5b1b, \h4c80, \h1819, \hd7ec),
    U64(\h0af5, \h3ae3, \h52a3, \h1e64), U64(\h5bf3, \hadda, \h19e9, \hb27b)>>

\* ROOT_OF_UNITY^-1
ROOT_OF_UNITY_INV ==
  <<U64(\h4256, \h481a, \hdcf3, \h219a), U64(\h45f3, \h7b7f, \h96b6, \hcad3),
    U64(\hf9c3, \hf1d7, \h5f7a, \h3b27), U64(\h2d2f, \hc049, \h658a, \hfd43)>>

\* A faulty DELTA: GENERATOR itself, not raised to the power 2^S.
DELTA_not_raised ==
  <<U64(\h0000, \h000e, \hffff, \hfff1), U64(\h17e3, \h63d3, \h0018, \h9c0f),
    U64(\hff9c, \h5787, \h6f84, \h57b0), U64(\h3513, \h3220, \h8fc5, \ha8c4)>>

\* GENERATOR^{2^s} where t * 2^s + 1 = q with t odd: a t root of unity
DELTA ==
  <<U64(\h70e3, \h10d3, \hd146, \hf96a), U64(\h4b64, \hc089, \h19e2, \h99e6),
    U64(\h51e1, \h1418, \h6a8b, \h970d), U64(\h6185, \hd066, \h27c0, \h67cb)>>

\* The exponent table that sqrt passes: (t - 1) // 2
tm1d2 ==
  <<U64(\h7fff, \h2dff, \h7fff, \hffff), U64(\h04d0, \hec02, \ha9de, \hd201),
    U64(\h94ce, \hbea4, \h199c, \hec04), U64(\h0000, \h0000, \h39f6, \hd3a9)>>

\* The variables of the helper's inner loop, and of its outer loop.
SqrtInner == [b2k : Scalar, z : Scalar, k : 0 .. S, j_less_than_v : Choice]
SqrtOuter == [x : Scalar, b : Scalar, z : Scalar, v : 0 .. S]

\* The assignments of one iteration j of the inner loop, given
\* b2k_is_one = b2k.ct_eq(&F::ONE), squared = select(&b2k, &z,
\* b2k_is_one).square() and the new j_less_than_v.
sqrt_inner_select[st \in SqrtInner, b2k_is_one \in Choice, squared \in Scalar,
                  j_less_than_v \in Choice, j \in 2 .. S] ==
  [b2k |-> conditional_select[squared, st.b2k, b2k_is_one],
   z |-> conditional_select[
           st.z, conditional_select[st.z, squared, b2k_is_one],
           j_less_than_v],
   k |-> IF b2k_is_one = 1 THEN st.k ELSE j,
   j_less_than_v |-> j_less_than_v]

\* One iteration j of the inner loop, for j in 2..max_v: b2k is squared
\* until it is one, then z is squared until j reaches v.
fn_sqrt_inner_iter(st, j, v) ==
  sqrt_inner_select[
    st, ct_eq[st.b2k, ONE],
    square[conditional_select[st.b2k, st.z, ct_eq[st.b2k, ONE]]],
    IF j = v THEN 0 ELSE st.j_less_than_v, j]

\* The iterations lo .. hi of the inner loop, the range halved at each level.
sqrt_inner[st \in SqrtInner, v \in 0 .. S, lo, hi \in 2 .. S] ==
  IF hi = lo THEN fn_sqrt_inner_iter(st, lo, v)
  ELSE sqrt_inner[sqrt_inner[st, v, lo, (lo + hi) \div 2],
                  v, ((lo + hi) \div 2) + 1, hi]

\* The inner loop for j in 2..max_v, which is empty for max_v of 1 and 2.
sqrt_inner_loop[st \in SqrtInner, v \in 0 .. S, max_v \in 1 .. S] ==
  IF max_v > 2 THEN sqrt_inner[st, v, 2, max_v - 1] ELSE st

\* The end of an outer iteration, given z after the inner loop squared:
\* x = select(&(x * z), &x, b.ct_eq(&F::ONE)); z = z.square(); b *= z; v = k.
sqrt_outer_assign[st \in SqrtOuter, end \in SqrtInner, z \in Scalar] ==
  [x |-> conditional_select[mul[st.x, end.z], st.x, ct_eq[st.b, ONE]],
   b |-> mul[st.b, z],
   z |-> z,
   v |-> end.k]

\* A faulty end of an outer iteration: b multiplied by z before z is squared.
fn_sqrt_outer_end_z_unsquared(st, end) ==
  sqrt_outer_assign[st, end, end.z]

\* The end of an outer iteration, after the inner loop.
fn_sqrt_outer_end(st, end) == sqrt_outer_assign[st, end, square[end.z]]

sqrt_outer_end[st \in SqrtOuter, end \in SqrtInner] ==
  fn_sqrt_outer_end(st, end)

\* One iteration of the outer loop, for max_v in (1..=S).rev(): k = 1,
\* b2k = b.square(), j_less_than_v = 1, the inner loop, and the end.
fn_sqrt_outer_iter(st, max_v) ==
  sqrt_outer_end[
    st, sqrt_inner_loop[[b2k |-> square[st.b], z |-> st.z, k |-> 1,
                         j_less_than_v |-> 1], st.v, max_v]]

\* The iterations max_v = hi down to lo of the outer loop.
sqrt_outer[st \in SqrtOuter, hi, lo \in 1 .. S] ==
  IF hi = lo THEN fn_sqrt_outer_iter(st, hi)
  ELSE sqrt_outer[sqrt_outer[st, hi, ((hi + lo) \div 2) + 1],
                  (hi + lo) \div 2, lo]

\* The loops from x = w * f, b = x * w, z = ROOT_OF_UNITY and v = S, and the
\* result CtOption::new(x, (x * x).ct_eq(f)).
sqrt_result[f, x \in Scalar] == CtOption(x, ct_eq[mul[x, x], f])

sqrt_loops[f, w, x \in Scalar] ==
  sqrt_result[f, sqrt_outer[[x |-> x, b |-> mul[x, w], z |-> ROOT_OF_UNITY,
                             v |-> S], S, 1].x]

sqrt_from_w[f, w \in Scalar] == sqrt_loops[f, w, mul[w, f]]

\* ff::helpers::sqrt_tonelli_shanks(f, tm1d2), with w = f^((t - 1) / 2)
fn_sqrt_tonelli_shanks(f, exp) == sqrt_from_w[f, pow_vartime[f, exp]]

\* Field::sqrt
fn_sqrt(self) == fn_sqrt_tonelli_shanks(self, tm1d2)

sqrt[self \in Scalar] == fn_sqrt(self)

----------------------------------------------------------------------------
(* Reference arithmetic, independent of the code: a natural number is the  *)
(* sequence of its digits in base 2^16, least significant first.           *)

\* The 256-bit integer that four limbs denote, limb 0 least significant.
Flat(s) == s[1] \o s[2] \o s[3] \o s[4]

\* The limbs of a 256-bit integer of 16 digits.
Limbs(d) ==
  <<SubSeq(d, 1, 4), SubSeq(d, 5, 8), SubSeq(d, 9, 12), SubSeq(d, 13, 16)>>

\* q = 0x73eda753299d7d483339d80809a1d80553bda402fffe5bfeffffffff00000001
RefQ ==
  <<\h0001, \h0000, \hffff, \hffff, \h5bfe, \hfffe, \ha402, \h53bd,
    \hd805, \h09a1, \hd808, \h3339, \h7d48, \h299d, \ha753, \h73ed>>

\* 2^256 mod q and its inverse modulo q
RefR ==
  <<\hfffe, \hffff, \h0001, \h0000, \h4802, \h0003, \hb7fa, \h5884,
    \h4ff5, \hecbc, \h4fef, \h998c, \h056f, \hacc5, \hb159, \h1824>>

RefRInv ==
  <<\hc040, \hfe75, \h5b69, \h13f7, \h705f, \h09dc, \hca8f, \hab6f,
    \h266a, \h4f77, \h078a, \h7204, \h9d57, \h3000, \h8693, \h1bbe>>

RefZero == [i \in 1 .. 16 |-> 0]
RefOne == [i \in 1 .. 16 |-> IF i = 1 THEN 1 ELSE 0]

\* u < v, for u and v of the same length, deciding at digit i and below.
RECURSIVE RefLessFrom(_, _, _)
RefLessFrom(u, v, i) ==
  IF i = 0 THEN FALSE
  ELSE IF u[i] # v[i] THEN u[i] < v[i]
  ELSE RefLessFrom(u, v, i - 1)

RefLess(u, v) == RefLessFrom(u, v, Len(u))

\* The digits of u + k * v + carry from digit i on (k and carry may be
\* negative; u and v have the same length, and the sum is not negative and
\* fits that length).
RECURSIVE RefAxpy(_, _, _, _, _)
RefAxpy(u, k, v, i, carry) ==
  IF i > Len(u) THEN <<>>
  ELSE <<(u[i] + k * v[i] + carry) % 65536>>
       \o RefAxpy(u, k, v, i + 1, (u[i] + k * v[i] + carry) \div 65536)

\* The 17 digits of 256 * acc + b * u + carry from digit i on, for acc and u
\* of 16 digits and a byte b.
RECURSIVE RefShiftMulAdd(_, _, _, _, _)
RefShiftMulAdd(acc, b, u, i, carry) ==
  IF i > 16 THEN <<carry>>
  ELSE <<(256 * acc[i] + b * u[i] + carry) % 65536>>
       \o RefShiftMulAdd(acc, b, u, i + 1,
                         (256 * acc[i] + b * u[i] + carry) \div 65536)

\* q with a 17th digit 0
RefQ17 == RefQ \o <<0>>

\* t - q until the difference is below q, for t of 17 digits.
RECURSIVE RefSubQ(_)
RefSubQ(t) ==
  IF RefLess(t, RefQ17) THEN t ELSE RefSubQ(RefAxpy(t, -1, RefQ17, 1, 0))

\* t mod q for t of 17 digits: a quotient estimate from the two top digits
\* that never exceeds the quotient, then subtraction.
RefMod(t) ==
  SubSeq(RefSubQ(RefAxpy(t, -((t[17] * 65536 + t[16]) \div (RefQ[16] + 1)),
                         RefQ17, 1, 0)), 1, 16)

\* Byte j (1 the least significant) of the number v.
RefByte(v, j) ==
  IF j % 2 = 1 THEN v[(j + 1) \div 2] % 256 ELSE v[j \div 2] \div 256

\* (acc * 256^n + u * w) mod q for the number w of the n bytes hi down to lo
\* of v, by Horner's rule, the range of bytes halved at each level.
RefHorner[acc \in [1 .. 16 -> Nat], u \in [1 .. 16 -> Nat],
          v \in [1 .. 16 -> Nat], hi \in 1 .. 32, lo \in 1 .. 32] ==
  IF hi = lo THEN RefMod(RefShiftMulAdd(acc, RefByte(v, hi), u, 1, 0))
  ELSE RefHorner[RefHorner[acc, u, v, hi, ((hi + lo) \div 2) + 1],
                 u, v, (hi + lo) \div 2, lo]

\* u * v mod q, for u below q and v below 2^256
RefMulMod(u, v) == RefHorner[RefZero, u, v, 32, 1]

\* The bytes of a 256-bit number, least and most significant first.
RefLeBytes(d) == [j \in 1 .. 32 |-> RefByte(d, j)]
RefBeBytes(d) == [j \in 1 .. 32 |-> RefByte(d, 33 - j)]

\* The number that 32 bytes denote in each byte order.
RefOfLeBytes(b) == [i \in 1 .. 16 |-> b[2 * i - 1] + 256 * b[2 * i]]
RefOfBeBytes(b) == [i \in 1 .. 16 |-> b[34 - 2 * i] + 256 * b[33 - 2 * i]]

\* Bit i (0 the least significant) of the number d.
RefBit(d, i) == (d[(i \div 16) + 1] \div (2 ^ (i % 16))) % 2

\* The first n digits of d, with zeros above its own.
RefPad(d, n) == [i \in 1 .. n |-> IF i <= Len(d) THEN d[i] ELSE 0]

\* 2^k and 2^(16 * n) - 1, as numbers of n digits
RefPow2(k, n) ==
  [i \in 1 .. n |-> IF i = (k \div 16) + 1 THEN 2 ^ (k % 16) ELSE 0]

RefAllOnes(n) == [i \in 1 .. n |-> 65535]

\* (u + v) mod q, for u and v of 16 digits with u + v < 2^272
RefAddMod(u, v) == RefMod(RefAxpy(RefPad(u, 17), 1, RefPad(v, 17), 1, 0))

\* (acc * 2^(64 * k) + the low 4 * k digits of d) mod q, 64 bits at a time
\* from the top, for acc below q.
RefReduceFrom[acc \in [1 .. 16 -> Nat], d \in Seq(Nat), k \in 0 .. 8] ==
  IF k = 0 THEN acc
  ELSE RefReduceFrom[RefAddMod(RefMulMod(acc, RefPow2(64, 16)),
                               RefPad(SubSeq(d, 4 * k - 3, 4 * k), 16)),
                     d, k - 1]

\* d mod q for a number d of at most 32 digits, their number a multiple of 4
RefReduce(d) == RefReduceFrom[RefZero, d, Len(d) \div 4]

\* The number that the words of a Uint denote, word 0 least significant, and
\* the words of a number.
RefOfWords(n) ==
  [i \in 1 .. 4 * Len(n) |-> n[((i - 1) \div 4) + 1][((i - 1) % 4) + 1]]
RefWords(d) == [k \in 1 .. Len(d) \div 4 |-> SubSeq(d, 4 * k - 3, 4 * k)]

\* The number that a byte string denotes, most significant byte first.
RefOfBeString(b) ==
  [i \in 1 .. Len(b) \div 2 |->
     b[Len(b) + 2 - 2 * i] + 256 * b[Len(b) + 1 - 2 * i]]

\* The bytes of a number, least significant first.
RefLeString(d) == [j \in 1 .. 2 * Len(d) |-> RefByte(d, j)]

\* acc^(2^n) * a^w mod q for the number w of the n bits hi down to lo of e, by
\* squaring and multiplying, the range of bits halved at each level.
RefPowMod[acc \in [1 .. 16 -> Nat], a \in [1 .. 16 -> Nat],
          e \in [1 .. 16 -> Nat], hi \in 0 .. 255, lo \in 0 .. 255] ==
  IF hi = lo
  THEN IF RefBit(e, hi) = 1 THEN RefMulMod(RefMulMod(acc, acc), a)
       ELSE RefMulMod(acc, acc)
  ELSE RefPowMod[RefPowMod[acc, a, e, hi, ((hi + lo) \div 2) + 1],
                 a, e, (hi + lo) \div 2, lo]

----------------------------------------------------------------------------
(* Inputs.  A 256-bit integer is written as its four limbs, least          *)
(* significant first, like the argument of from_raw.                       *)

\* q - 1 and q - 2 (the exponent of test_invert_is_pow)
QMinus1 ==
  <<U64(\hffff, \hffff, \h0000, \h0000), U64(\h53bd, \ha402, \hfffe, \h5bfe),
    U64(\h3339, \hd808, \h09a1, \hd805), U64(\h73ed, \ha753, \h299d, \h7d48)>>

QMinus2 ==
  <<U64(\hffff, \hfffe, \hffff, \hffff), U64(\h53bd, \ha402, \hfffe, \h5bfe),
    U64(\h3339, \hd808, \h09a1, \hd805), U64(\h73ed, \ha753, \h299d, \h7d48)>>

\* 2^256 - 1, the largest argument of from_raw
MaxRaw == <<MaxU64, MaxU64, MaxU64, MaxU64>>

\* The integer whose Montgomery form is LARGEST, the limbs q - 1 of the
\* tests.
LargestRaw ==
  <<U64(\hec08, \ha495, \h018a, \h3fc1), U64(\ha84d, \hd973, \hf621, \heb9f),
    U64(\hc135, \hd07d, \hba2a, \hb19a), U64(\h582f, \h20bf, \hf99c, \hdff0)>>

\* n bytes, all equal to b
Bytes(n, b) == [i \in 1 .. n |-> b]

\* The scalars a caller can start from, each built by a public constructor
\* (a decoded scalar is the value of a present result).
Constructors == 1 .. 10

Constructed(i) ==
  CASE i = 1 -> ZERO
    [] i = 2 -> ONE
    [] i = 3 -> from_u64[U64(0, 0, 0, 2)]
    [] i = 4 -> from_raw[QMinus1]
    [] i = 5 -> from_raw[LargestRaw]
    [] i = 6 -> from_raw[MaxRaw]
    [] i = 7 -> from_bytes_wide[Bytes(64, 255)]
    [] i = 8 -> from_okm[Bytes(48, 255)]
    [] i = 9 -> from_le_bytes[RefLeBytes(Flat(QMinus2))].value
    [] i = 10 -> from_be_bytes[RefBeBytes(Flat(LargestRaw))].value

----------------------------------------------------------------------------
(* The state.  Every specification below uses the same variables and       *)
(* leaves those it does not need at their initial values.                  *)

VARIABLES
  reg,    \* three Scalar registers; an operation's result is pushed in front
  calls,  \* the names of the operations applied to the registers, in order
  arg,    \* the operands of the exponentiation under way: [self, by]
  step,   \* the number of exponent bits the exponentiation has processed
  acc,    \* res of pow after `step` iterations
  accv,   \* res of pow_vartime after `step` iterations
  inv,    \* the results of the inversions made, a sequence of CtOption
  ref,    \* the reference power: [a, n, p], numbers with p = a^n mod q
  buf,    \* the 32-byte string in hand
  src,    \* where buf comes from: [kind, a], kind "input" or the encoder
  dec,    \* the decodings of buf made: a sequence of [order, res]
  edits,  \* the number of bytes of buf the caller has changed
  given,  \* what is in hand to convert: [kind, value, of], `of` the scalar
          \* that value was made from, if it was
  conv,   \* the conversions of it made: a sequence of [op, out]
  exec,   \* the function a caller follows statement by statement: its
          \* name, its arguments and its locals
  trace   \* the field operations executed by pow, by pow_vartime and by
          \* each call of invert, in order

vars ==
  <<reg, calls, arg, step, acc, accv, inv, ref, buf, src, dec, edits, given,
    conv, exec, trace>>

\* No operation applied to the registers.
NoCalls == reg = <<ZERO, ZERO, ZERO>> /\ calls = <<>>

\* No exponentiation under way and no inversion made.
NoPow ==
  /\ arg = [self |-> ZERO, by |-> ZERO]
  /\ step = 0
  /\ acc = ONE
  /\ accv = ONE
  /\ inv = <<>>
  /\ ref = [a |-> RefZero, n |-> RefZero, p |-> RefOne]

\* No byte string in hand.
NoBytes ==
  /\ buf = Bytes(32, 0)
  /\ src = [kind |-> "input", a |-> ZERO]
  /\ dec = <<>>
  /\ edits = 0

\* Nothing in hand to convert.
NoConv == given = [kind |-> "none", value |-> <<>>, of |-> <<>>] /\ conv = <<>>

\* No function followed statement by statement.
NoExec == exec = [fn |-> "none"]

\* No field operation executed.
NoTrace == trace = [pow |-> <<>>, pow_vartime |-> <<>>, invert |-> <<>>]

----------------------------------------------------------------------------
(* Spec: any sequence of at most MaxOps operations on scalars built by     *)
(* public constructors.  SpecField is Spec without pow, pow_vartime and    *)
(* invert, from more initial states.                                       *)

MaxOps == 2
MaxShift == 2
\* pow, pow_vartime and invert are applied among the first MaxLongOps
\* operations only.
MaxLongOps == 1

\* The exponents of Pow and PowVartime.
Exponents == {QMinus2}

\* The registers hold three constructed scalars in a row, from the i-th on.
Start(i) ==
  /\ reg = [j \in 1 .. 3 |->
              Constructed(((i + j - 2) % Cardinality(Constructors)) + 1)]
  /\ calls = <<>>
  /\ NoPow
  /\ NoBytes
  /\ NoConv
  /\ NoExec
  /\ NoTrace

\* Every constructed scalar is in a register of one initial state of Spec,
\* and every three in a row are the registers of one of SpecField.
Init == \E i \in {1, 4, 7, 10} : Start(i)

InitField == \E i \in Constructors : Start(i)

\* The operation `name` returns r.
Return(name, r) ==
  /\ Len(calls) < MaxOps
  /\ reg' = <<r, reg[1], reg[2]>>
  /\ calls' = Append(calls, name)
  /\ UNCHANGED <<arg, step, acc, accv, inv, ref, buf, src, dec, edits,
                 given, conv, exec, trace>>

Add == Return("add", add[reg[1], reg[2]])

Sub == Return("sub", sub[reg[1], reg[2]])

Mul == Return("mul", mul[reg[1], reg[2]])

Neg == Return("neg", neg[reg[1]])

Double == Return("double", double[reg[1]])

Square == Return("square", square[reg[1]])

Shr == \E n \in 1 .. MaxShift : Return("shr", shr[reg[1], n])

Pow ==
  Len(calls) < MaxLongOps
  /\ \E by \in Exponents : Return("pow", pow[reg[1], by])

PowVartime ==
  Len(calls) < MaxLongOps
  /\ \E by \in Exponents : Return("pow_vartime", pow_vartime[reg[1], by])

\* invert returns a CtOption: the caller has a new scalar only when it is
\* not empty.
Invert ==
  /\ Len(calls) < MaxLongOps
  /\ \E r \in {invert[reg[1]]} :
       IF r.is_some = 1 THEN Return("invert", r.value)
       ELSE /\ Len(calls) < MaxOps
            /\ calls' = Append(calls, "invert (empty)")
            /\ UNCHANGED <<reg, arg, step, acc, accv, inv, ref,
                           buf, src, dec, edits,
                           given, conv, exec, trace>>

NextField == Add \/ Sub \/ Mul \/ Neg \/ Double \/ Square \/ Shr

Next == NextField \/ Pow \/ PowVartime \/ Invert

Spec == Init /\ [][Next]_vars

SpecField == InitField /\ [][NextField]_vars

\* SpecMul: the multiplications, with add and neg to make more operands.
NextMul == Mul \/ Square \/ Add \/ Neg

SpecMul == InitField /\ [][NextMul]_vars

----------------------------------------------------------------------------
(* SpecPow: a caller inverts a scalar, inverts the inverse, and raises the *)
(* scalar to a power with pow and with pow_vartime, the two loops advancing *)
(* one exponent bit at a time.                                             *)

\* The exponents: 0, 1, q - 2, the limbs of LARGEST and 2^256 - 1.
PowExponents ==
  <<<<ZeroU64, ZeroU64, ZeroU64, ZeroU64>>,
    <<OneU64, ZeroU64, ZeroU64, ZeroU64>>,
    QMinus2, LargestRaw, MaxRaw>>

\* The runs: <<the constructor of self, the exponent>>.
PowRuns ==
  {<<1, 1>>, <<5, 1>>, <<8, 2>>, <<8, 3>>, <<2, 3>>, <<4, 3>>, <<7, 4>>,
   <<3, 5>>}

\* The digits of d \div 2^k, for k up to 256.
RefShr(d, k) ==
  [i \in 1 .. 16 |->
     IF i + (k \div 16) > 16 THEN 0
     ELSE (d[i + (k \div 16)] \div (2 ^ (k % 16)))
          + (IF i + (k \div 16) + 1 > 16 THEN 0
             ELSE (d[i + (k \div 16) + 1] % (2 ^ (k % 16)))
                  * (2 ^ (16 - (k % 16))))]

InitPow ==
  /\ NoCalls
  /\ NoBytes
  /\ NoConv
  /\ NoExec
  /\ NoTrace
  /\ \E run \in PowRuns :
       /\ arg = [self |-> Constructed(run[1]), by |-> PowExponents[run[2]]]
       /\ ref = [a |-> RefMulMod(Flat(arg.self), RefRInv),
                 n |-> RefZero, p |-> RefOne]
  /\ step = 0
  /\ acc = ONE
  /\ accv = ONE
  /\ inv = <<>>

\* let r = self.invert();
CallInvert ==
  /\ inv = <<>>
  /\ inv' = <<invert[arg.self]>>
  /\ trace' = [trace EXCEPT !.invert = Append(@, fn_invert_ops(arg.self))]
  /\ UNCHANGED <<reg, calls, arg, step, acc, accv, ref, buf, src, dec, edits,
                 given, conv, exec>>

\* r.unwrap().invert(), for a present r
CallInvertAgain ==
  /\ Len(inv) = 1
  /\ inv[1].is_some = 1
  /\ inv' = Append(inv, invert[inv[1].value])
  /\ trace' = [trace EXCEPT
                 !.invert = Append(@, fn_invert_ops(inv[1].value))]
  /\ UNCHANGED <<reg, calls, arg, step, acc, accv, ref, buf, src, dec, edits,
                 given, conv, exec>>

\* One iteration of the loops of pow and of pow_vartime, on the same bit.
\* The reference power follows with the bit that the number by has at that
\* place: n becomes 2 * n + bit and p becomes p * p * a^bit.
PowStep ==
  /\ Len(inv) = 2 \/ (Len(inv) = 1 /\ inv[1].is_some = 0)
  /\ step < 64 * Len(arg.by)
  /\ acc' = pow_iter[acc, arg.self, pow_bit(arg.by, step)]
  /\ accv' = pow_vartime_iter[accv, arg.self, pow_bit(arg.by, step)]
  /\ step' = step + 1
  /\ \E bit \in {RefBit(Flat(arg.by), 255 - step)} :
       ref' = [a |-> ref.a,
               n |-> RefAxpy(ref.n, 1, ref.n, 1, bit),
               p |-> RefMulMod(RefMulMod(ref.p, ref.p),
                               IF bit = 1 THEN ref.a ELSE RefOne)]
  /\ trace' = [trace EXCEPT
                 !.pow = @ \o fn_pow_iter_ops(pow_bit(arg.by, step)),
                 !.pow_vartime =
                   @ \o fn_pow_vartime_iter_ops(pow_bit(arg.by, step))]
  /\ UNCHANGED <<reg, calls, arg, inv, buf, src, dec, edits, given, conv,
                 exec>>

NextPow == CallInvert \/ CallInvertAgain \/ PowStep

SpecPow == InitPow /\ [][NextPow]_vars

----------------------------------------------------------------------------
(* SpecBytes: a caller has 32 bytes, read from outside or written by       *)
(* to_le_bytes or to_be_bytes, and decodes them with from_le_bytes or      *)
(* from_be_bytes.                                                          *)

\* A caller changes at most MaxEdits bytes of an input.
MaxEdits == 1

\* The numbers of the inputs: 0, q - 1, q, q + 1 and 2^256 - 1.
ByteNumbers ==
  {RefZero, Flat(QMinus1), RefQ, RefAxpy(RefQ, 1, RefOne, 1, 0), Flat(MaxRaw)}

ByteInputs ==
  {RefLeBytes(d) : d \in ByteNumbers} \cup {RefBeBytes(d) : d \in ByteNumbers}

\* The bytes a caller changes: the first and the last of each limb.
EditAt == {1, 8, 9, 16, 17, 24, 25, 32}

InitBytes ==
  /\ NoCalls
  /\ NoPow
  /\ NoConv
  /\ NoExec
  /\ NoTrace
  /\ buf \in ByteInputs
  /\ src = [kind |-> "input", a |-> ZERO]
  /\ dec = <<>>
  /\ edits = 0

\* Another input: one byte of buf one more or one less.
Edit ==
  /\ src.kind = "input"
  /\ dec = <<>>
  /\ edits < MaxEdits
  /\ \E j \in EditAt, d \in {-1, 1} :
       /\ buf[j] + d \in u8
       /\ buf' = [buf EXCEPT ![j] = buf[j] + d]
  /\ edits' = edits + 1
  /\ UNCHANGED <<reg, calls, arg, step, acc, accv, inv, ref, src, dec,
                 given, conv, exec, trace>>

\* The bytes of the encoder `kind` for a constructed scalar replace buf.
Encoded(kind, a, bytes) ==
  /\ src.kind = "input"
  /\ dec = <<>>
  /\ edits = 0
  /\ buf' = bytes
  /\ src' = [kind |-> kind, a |-> a]
  /\ UNCHANGED <<reg, calls, arg, step, acc, accv, inv, ref, dec, edits,
                 given, conv, exec, trace>>

ToLeBytes ==
  \E i \in Constructors :
    \E a \in {Constructed(i)} : Encoded("to_le_bytes", a, to_le_bytes[a])

ToBeBytes ==
  \E i \in Constructors :
    \E a \in {Constructed(i)} : Encoded("to_be_bytes", a, to_be_bytes[a])

\* buf is decoded in the byte order `order` with the result res.
Decoded(order, res) ==
  /\ dec = <<>>
  /\ dec' = <<[order |-> order, res |-> res]>>
  /\ UNCHANGED <<reg, calls, arg, step, acc, accv, inv, ref, buf, src, edits,
                 given, conv, exec, trace>>

FromLeBytes == Decoded("le", from_le_bytes[buf])

FromBeBytes == Decoded("be", from_be_bytes[buf])

NextBytes == Edit \/ ToLeBytes \/ ToBeBytes \/ FromLeBytes \/ FromBeBytes

SpecBytes == InitBytes /\ [][NextBytes]_vars

----------------------------------------------------------------------------
(* SpecConv: a caller has a scalar, an unsigned integer of 256, 384 or 512 *)
(* bits, 32 bytes or a string, and converts it once.  A scalar converted   *)
(* to an unsigned integer leaves that integer in hand, to be converted     *)
(* back.                                                                   *)

\* The numbers 3 * q + 3 (test_from_u512_max and its neighbours reduce
\* multiples of q) and 4 * q + 1 (test_reduce).
ThreeQPlus3 == RefAxpy(RefPad(<<3>>, 32), 3, RefPad(RefQ, 32), 1, 0)
FourQPlus1 == RefAxpy(RefPad(<<1>>, 24), 4, RefPad(RefQ, 24), 1, 0)

Numbers512 ==
  {RefPad(<<0>>, 32), RefPad(<<1>>, 32), RefPad(RefQ, 32),
   RefPad(Flat(QMinus1), 32), RefPow2(256, 32), RefAllOnes(32), ThreeQPlus3,
   RefPad(RefAllOnes(16), 32)}

Numbers384 ==
  {RefPad(<<0>>, 24), RefPad(<<1>>, 24), RefPad(RefQ, 24),
   RefPad(Flat(QMinus1), 24), RefPow2(192, 24), RefPow2(256, 24),
   RefAllOnes(24), FourQPlus1}

Numbers256 ==
  {RefPad(<<0>>, 16), RefPad(<<1>>, 16), RefPad(<<3>>, 16), RefQ,
   Flat(QMinus1), RefAllOnes(16)}

\* A byte string in hexadecimal, as hex::encode writes it.
HexOf(bytes) ==
  LET digits == <<"0", "1", "2", "3", "4", "5", "6", "7", "8", "9",
                  "a", "b", "c", "d", "e", "f">>
  IN [j \in 1 .. 2 * Len(bytes) |->
        IF j % 2 = 1 THEN digits[(bytes[(j + 1) \div 2] \div 16) + 1]
        ELSE digits[(bytes[j \div 2] % 16) + 1]]

\* Strings: the little-endian bytes of 3, of q - 1 and of q in hexadecimal,
\* one in upper case, one with a character that is no digit, and strings of
\* odd length and of the wrong length.
Strings ==
  {HexOf(RefLeBytes(RefPad(<<3>>, 16))), HexOf(RefLeBytes(Flat(QMinus1))),
   HexOf(RefLeBytes(RefQ)),
   [j \in 1 .. 64 |-> IF j = 1 THEN "F" ELSE "0"],
   [j \in 1 .. 64 |-> IF j = 64 THEN "g" ELSE "0"],
   [j \in 1 .. 63 |-> "0"], <<"0", "3">>, <<>>}

\* The scalar that test_sqrt starts from, GENERATOR = 7, which is no square,
\* and 4, which is one.
SqrtInputs ==
  {<<U64(\h46cd, \h85a5, \hf273, \h077e), U64(\h1d30, \hc47d, \hd68f, \hc735),
     U64(\h77f6, \h56f6, \h0bec, \ha0eb), U64(\h494a, \ha01b, \hdf32, \h468d)>>,
   from_u64[U64(0, 0, 0, 7)], from_u64[U64(0, 0, 0, 4)]}

Has(kind, value) == [kind |-> kind, value |-> value, of |-> <<>>]

ConvInputs ==
  {Has("Scalar", Constructed(i)) : i \in Constructors}
  \cup {Has("Scalar", a) : a \in SqrtInputs}
  \cup {Has("U512", RefWords(d)) : d \in Numbers512}
  \cup {Has("U384", RefWords(d)) : d \in Numbers384}
  \cup {Has("U256", RefWords(d)) : d \in Numbers256}
  \cup {Has("[u8; 32]", RefBeBytes(d)) : d \in Numbers256}
  \cup {Has("&str", s) : s \in Strings}

InitConv ==
  /\ NoCalls
  /\ NoPow
  /\ NoBytes
  /\ given \in ConvInputs
  /\ conv = <<>>
  /\ NoExec
  /\ NoTrace

\* The caller converts what is in hand with op, once.
Converts(kind, op, out) ==
  /\ given.kind = kind
  /\ conv = <<>>
  /\ conv' = <<[op |-> op, out |-> out]>>
  /\ UNCHANGED <<reg, calls, arg, step, acc, accv, inv, ref, buf, src, dec,
                 edits, given, exec, trace>>

\* The caller converts the scalar in hand to an unsigned integer.
Makes(kind, value) ==
  /\ given.kind = "Scalar"
  /\ conv = <<>>
  /\ given' = [kind |-> kind, value |-> value, of |-> given.value]
  /\ UNCHANGED <<reg, calls, arg, step, acc, accv, inv, ref, buf, src, dec,
                 edits, conv, exec, trace>>

U256From == Makes("U256", fn_U256_from(given.value))
U384From == Makes("U384", fn_U384_from(given.value))
U512From == Makes("U512", fn_U512_from(given.value))

FromU512 == Converts("U512", "from_u512", Returns(from_u512[given.value]))

FromBytesWide ==
  Converts("U512", "from_bytes_wide",
           Returns(from_bytes_wide[RefLeString(RefOfWords(given.value))]))

ReduceU512 == Converts("U512", "reduce", Returns(fn_reduce_U512(given.value)))

ScalarFromU512 ==
  Converts("U512", "Scalar::from", Returns(fn_from_U512(given.value)))

FromOkm ==
  Converts("U384", "from_okm",
           Returns(from_okm[Uint_to_be_bytes(given.value)]))

ReduceU384 == Converts("U384", "reduce", Returns(fn_reduce_U384(given.value)))

ScalarFromU384 ==
  Converts("U384", "Scalar::from", Returns(fn_from_U384(given.value)))

ScalarFromArray48 ==
  Converts("U384", "Scalar::from(GenericArray)",
           Returns(fn_from_GenericArray_U48(Uint_to_be_bytes(given.value))))

ReduceU256 == Converts("U256", "reduce", Returns(fn_reduce_U256(given.value)))

ScalarFromU256 ==
  Converts("U256", "Scalar::from", Returns(fn_from_U256(given.value)))

IsHigh == Converts("Scalar", "is_high", Returns(fn_is_high(given.value)))

Sqrt == Converts("Scalar", "sqrt", Returns(sqrt[given.value]))

DecodeLe ==
  Converts("[u8; 32]", "from_le_bytes", Returns(from_le_bytes[given.value]))

DecodeBe ==
  Converts("[u8; 32]", "from_be_bytes", Returns(from_be_bytes[given.value]))

ScalarFromArray32 ==
  Converts("[u8; 32]", "Scalar::from(GenericArray)",
           fn_from_GenericArray_U32(given.value))

Deserialize ==
  Converts("&str", "ScalarLe::deserialize",
           fn_ScalarLe_deserialize(given.value))

NextConv ==
  \/ U256From
  \/ U384From
  \/ U512From
  \/ FromU512
  \/ FromBytesWide
  \/ ReduceU512
  \/ ScalarFromU512
  \/ FromOkm
  \/ ReduceU384
  \/ ScalarFromU384
  \/ ScalarFromArray48
  \/ ReduceU256
  \/ ScalarFromU256
  \/ IsHigh
  \/ Sqrt
  \/ DecodeLe
  \/ DecodeBe
  \/ ScalarFromArray32
  \/ Deserialize

SpecConv == InitConv /\ [][NextConv]_vars

----------------------------------------------------------------------------
(* SpecView: a caller has a small integer, a scalar, a hexadecimal string  *)
(* or 32 bytes.  The caller makes a scalar of the integer, negates a       *)
(* scalar, writes a scalar as a string or as bytes, and at the end reads   *)
(* what is in hand once.  `given.of` is what was in hand before and        *)
(* `given.by` the operation that made `given.value` of it.                 *)

\* 0, 1, 3, 96 (test_shr), 2^32 - 1, 2^32 and 2^64 - 1
SmallU64 ==
  {U64(0, 0, 0, 0), U64(0, 0, 0, 1), U64(0, 0, 0, 3), U64(0, 0, 0, 96),
   U64(0, 0, 65535, 65535), U64(0, 1, 0, 0), MaxU64}

SmallU32 == {<<0, 0>>, <<1, 0>>, <<3, 0>>, <<65535, 65535>>}

\* The numbers of the strings and bytes read from outside: 3, q - 1, q,
\* q + 1 and 2^256 - 1.
ViewNumbers ==
  {RefPad(<<3>>, 16), Flat(QMinus1), RefQ, RefAxpy(RefQ, 1, RefOne, 1, 0),
   RefAllOnes(16)}

Outside(kind, value) ==
  [kind |-> kind, value |-> value, of |-> [kind |-> "none"], by |-> "input"]

InitView ==
  /\ NoCalls
  /\ NoPow
  /\ NoBytes
  /\ NoExec
  /\ NoTrace
  /\ \/ \E v \in SmallU64 : given = Outside("u64", v)
     \/ \E v \in SmallU32 : given = Outside("u32", v)
     \/ \E i \in Constructors : given = Outside("Scalar", Constructed(i))
     \/ given = Outside("Scalar", R2)
     \/ \E d \in ViewNumbers : given = Outside("be hex", HexOf(RefBeBytes(d)))
     \/ \E d \in ViewNumbers : given = Outside("le hex", HexOf(RefLeBytes(d)))
     \/ \E d \in ViewNumbers : given = Outside("[u8; 32]", RefLeBytes(d))
  /\ conv = <<>>

\* The operation `by` makes value, of the kind `to`, of what is in hand.
Turns(kind, by, to, value) ==
  /\ given.kind = kind
  /\ conv = <<>>
  /\ given' = [kind |-> to, value |-> value, of |-> given, by |-> by]
  /\ UNCHANGED <<reg, calls, arg, step, acc, accv, inv, ref, buf, src, dec,
                 edits, conv, exec, trace>>

ViewFromU32 == Turns("u32", "From<u32>", "Scalar", fn_from_u32(given.value))

ViewFromU64 == Turns("u64", "From<u64>", "Scalar", from_u64[given.value])

\* -a, of a scalar that is not itself a negation
ViewNeg ==
  /\ given.by # "neg"
  /\ Turns("Scalar", "neg", "Scalar", neg[given.value])

ViewToRaw == Converts("Scalar", "to_raw", to_raw[given.value])

ViewToLeBytes == Converts("Scalar", "to_le_bytes", to_le_bytes[given.value])

ViewToBeBytes == Converts("Scalar", "to_be_bytes", to_be_bytes[given.value])

\* format!("{:x}", a), format!("{:?}", a) and format!("{}", a), of a scalar
\* that no operation of this specification made
FormatLowerHex ==
  /\ given.by = "input"
  /\ Turns("Scalar", "{:x}", "be hex", fn_LowerHex_fmt(given.value))

FormatDebug ==
  /\ given.by = "input"
  /\ Turns("Scalar", "{:?}", "be hex", fn_Debug_fmt(given.value))

FormatDisplay ==
  /\ given.by = "input"
  /\ Turns("Scalar", "{}", "be hex", fn_Display_fmt(given.value))

\* hex::encode(a.to_le_bytes())
EncodeLeHex ==
  /\ given.by = "input"
  /\ Turns("Scalar", "hex::encode(to_le_bytes)", "le hex",
           HexOf(to_le_bytes[given.value]))

\* a.is_high(), of a scalar or of its negation
ViewIsHigh == Converts("Scalar", "is_high", fn_is_high(given.value))

FromBeHex == Converts("be hex", "from_be_hex", fn_from_be_hex(given.value))

FromLeHex == Converts("le hex", "from_le_hex", fn_from_le_hex(given.value))

\* ScalarLe::serialize(&a, s) for a human-readable s and for one that is not
SerializeLe ==
  /\ given.by = "input"
  /\ \/ Turns("Scalar", "ScalarLe::serialize", "le hex",
              fn_ScalarLe_serialize(given.value, TRUE).value)
     \/ Turns("Scalar", "ScalarLe::serialize", "[u8; 32]",
              fn_ScalarLe_serialize(given.value, FALSE).value)

\* a.serialize(s) for a human-readable s
Serialize ==
  /\ given.by = "input"
  /\ Turns("Scalar", "Serialize::serialize", "be hex",
           fn_Scalar_serialize(given.value).value)

\* ScalarLe::deserialize(d) for a human-readable d that holds the string in
\* hand and for one that is not and holds the bytes in hand
DeserializeLe ==
  \/ Converts("le hex", "ScalarLe::deserialize",
              fn_ScalarLe_deserialize(given.value))
  \/ Converts("[u8; 32]", "ScalarLe::deserialize",
              fn_ScalarLe_deserialize_binary(given.value))

NextView ==
  \/ ViewFromU32
  \/ ViewFromU64
  \/ ViewNeg
  \/ ViewToRaw
  \/ ViewToLeBytes
  \/ ViewToBeBytes
  \/ ViewIsHigh
  \/ FormatLowerHex
  \/ FormatDebug
  \/ FormatDisplay
  \/ EncodeLeHex
  \/ FromBeHex
  \/ FromLeHex
  \/ SerializeLe
  \/ Serialize
  \/ DeserializeLe

SpecView == InitView /\ [][NextView]_vars

----------------------------------------------------------------------------
(* SpecShr: a caller shifts a scalar right by rhs, the loop of Shr followed *)
(* one iteration at a time, and doubles the result as many times.          *)

\* The largest rhs.
MaxRhs == 4

\* The scalars shifted: the constructed ones, their doubles a + a, and 96.
ShrInputs ==
  {Constructed(i) : i \in Constructors}
  \cup {add[Constructed(i), Constructed(i)] : i \in Constructors}
  \cup {from_u64[U64(0, 0, 0, 96)]}

\* let mut tmp = self;
InitShr ==
  /\ NoCalls
  /\ NoPow
  /\ NoBytes
  /\ NoConv
  /\ NoTrace
  /\ \E self \in ShrInputs, rhs \in 0 .. MaxRhs :
       exec = [fn |-> "shr", self |-> self, by |-> rhs, tmp |-> self,
               rhs |-> rhs, iterations |-> 0, returned |-> FALSE]

\* while rhs > 0 { tmp *= TWO_INV; rhs -= 1; }
ShrIterate ==
  /\ exec.fn = "shr"
  /\ ~exec.returned
  /\ exec.rhs > 0
  /\ exec' = [exec EXCEPT !.tmp = fn_shr_iter(exec.tmp),
                          !.rhs = exec.rhs - 1,
                          !.iterations = exec.iterations + 1]
  /\ UNCHANGED <<reg, calls, arg, step, acc, accv, inv, ref, buf, src, dec,
                 edits, given, conv, trace>>

\* tmp, returned when the loop is left; the caller has it in a register.
ShrReturn ==
  /\ exec.fn = "shr"
  /\ ~exec.returned
  /\ ~(exec.rhs > 0)
  /\ exec' = [exec EXCEPT !.returned = TRUE]
  /\ reg' = <<exec.tmp, reg[1], reg[2]>>
  /\ UNCHANGED <<calls, arg, step, acc, accv, inv, ref, buf, src, dec,
                 edits, given, conv, trace>>

\* The caller doubles what was returned, at most as many times as the shift
\* was long.
DoubleBack ==
  /\ exec.fn = "shr"
  /\ exec.returned
  /\ Len(calls) < exec.by
  /\ reg' = [reg EXCEPT ![1] = double[reg[1]]]
  /\ calls' = Append(calls, "double")
  /\ UNCHANGED <<arg, step, acc, accv, inv, ref, buf, src, dec,
                 edits, given, conv, exec, trace>>

NextShr == ShrIterate \/ ShrReturn \/ DoubleBack

\* The caller's thread runs on: a step that can be taken is taken.
SpecShr == InitShr /\ [][NextShr]_vars /\ WF_vars(NextShr)

----------------------------------------------------------------------------
(* SpecConst: test_constants.  A caller raises ROOT_OF_UNITY to 2^S and to *)
(* 2^(S - 1) and DELTA to t, one exponent bit at a time, and inverts them.  *)

\* 1u64 << S and 1u64 << (S - 1)
TwoToS == <<U64(0, 1, 0, 0), ZeroU64, ZeroU64, ZeroU64>>
TwoToSMinus1 == <<U64(0, 0, 32768, 0), ZeroU64, ZeroU64, ZeroU64>>

\* t of test_constants, with q - 1 = t * 2^S
TOfTest ==
  <<U64(\hfffe, \h5bfe, \hffff, \hffff), U64(\h09a1, \hd805, \h53bd, \ha402),
    U64(\h299d, \h7d48, \h3339, \hd808), U64(\h0000, \h0000, \h73ed, \ha753)>>

ConstRuns ==
  {<<ROOT_OF_UNITY, TwoToS>>, <<ROOT_OF_UNITY, TwoToSMinus1>>,
   <<DELTA, TOfTest>>}

InitConst ==
  /\ NoCalls
  /\ NoBytes
  /\ NoConv
  /\ NoExec
  /\ NoTrace
  /\ \E r \in ConstRuns :
       /\ arg = [self |-> r[1], by |-> r[2]]
       /\ ref = [a |-> RefMulMod(Flat(arg.self), RefRInv),
                 n |-> RefZero, p |-> RefOne]
  /\ step = 0
  /\ acc = ONE
  /\ accv = ONE
  /\ inv = <<>>

SpecConst == InitConst /\ [][NextPow]_vars

----------------------------------------------------------------------------
(* SpecReduce: montgomery_reduce followed one statement at a time, as      *)
(* from_raw, to_raw and mul call it and for the largest input it is meant  *)
(* for.  to_raw follows from_raw on its result.                            *)

\* from_raw of test_from_raw: 1, MODULUS.0, [0xffff_ffff_ffff_ffff; 4] and
\* the limbs the test expects to be the same scalar; and 0, 3 and q - 1.
RawInputs ==
  {<<OneU64, ZeroU64, ZeroU64, ZeroU64>>, MODULUS, MaxRaw,
   <<U64(\h0000, \h0001, \hffff, \hfffd), U64(\h5884, \hb7fa, \h0003, \h4802),
     U64(\h998c, \h4fef, \hecbc, \h4ff5), U64(\h1824, \hb159, \hacc5, \h056f)>>,
   <<ZeroU64, ZeroU64, ZeroU64, ZeroU64>>,
   <<U64(0, 0, 0, 3), ZeroU64, ZeroU64, ZeroU64>>, QMinus1}

\* The eight limbs that mul(self, rhs) hands to montgomery_reduce.
Product(self, rhs) ==
  LET s == lets[frame(self, rhs, Unbound), "mul", 1, Len(mul_body)]
  IN <<s["r0"], s["r1"], s["r2"], s["r3"], s["r4"], s["r5"], s["r6"], s["r7"]>>

\* q * 2^256 - 1, the largest input below q * 2^256, and (q - 1) * 2^256
LargestWide ==
  {<<MaxU64, MaxU64, MaxU64, MaxU64,
     QMinus1[1], QMinus1[2], QMinus1[3], QMinus1[4]>>,
   <<ZeroU64, ZeroU64, ZeroU64, ZeroU64,
     QMinus1[1], QMinus1[2], QMinus1[3], QMinus1[4]>>}

\* montgomery_reduce is entered with the limbs T, called by `call` for v.
Enters(call, v, T) ==
  [fn |-> "montgomery_reduce", call |-> call, v |-> v, T |-> T,
   s |-> frame(ZERO, ZERO, T), pc |-> 0, returned |-> <<>>]

InitReduce ==
  /\ NoCalls
  /\ NoPow
  /\ NoBytes
  /\ NoConv
  /\ NoTrace
  /\ \/ \E v \in RawInputs : exec = Enters("from_raw", v, Product(v, R2))
     \/ \E T \in LargestWide : exec = Enters("direct", ZERO, T)
     \/ \E i \in Constructors :
          exec = Enters("mul", ZERO,
                        Product(Constructed(i),
                                Constructed((i % Cardinality(Constructors))
                                            + 1)))

\* The next let statement of montgomery_reduce.
ReduceLet ==
  /\ exec.fn = "montgomery_reduce"
  /\ exec.pc < Len(montgomery_reduce_body)
  /\ exec' = [exec EXCEPT !.s = let[exec.s, "montgomery_reduce", exec.pc + 1],
                          !.pc = exec.pc + 1]
  /\ UNCHANGED <<reg, calls, arg, step, acc, accv, inv, ref, buf, src, dec,
                 edits, given, conv, trace>>

\* (&Scalar([r4, r5, r6, r7])).sub(&MODULUS)
ReduceReturn ==
  /\ exec.fn = "montgomery_reduce"
  /\ exec.pc = Len(montgomery_reduce_body)
  /\ exec.returned = <<>>
  /\ exec' = [exec EXCEPT !.returned = <<montgomery_reduce_ret[exec.s]>>]
  /\ UNCHANGED <<reg, calls, arg, step, acc, accv, inv, ref, buf, src, dec,
                 edits, given, conv, trace>>

\* to_raw of the scalar that from_raw returned:
\* Scalar::montgomery_reduce(self.0[0], self.0[1], self.0[2], self.0[3],
\*                           0, 0, 0, 0)
ToRawOfFromRaw ==
  /\ exec.fn = "montgomery_reduce"
  /\ exec.call = "from_raw"
  /\ exec.returned # <<>>
  /\ exec' = Enters("to_raw", exec.v,
                    exec.returned[1]
                      \o <<ZeroU64, ZeroU64, ZeroU64, ZeroU64>>)
  /\ UNCHANGED <<reg, calls, arg, step, acc, accv, inv, ref, buf, src, dec,
                 edits, given, conv, trace>>

NextReduce == ReduceLet \/ ReduceReturn \/ ToRawOfFromRaw

SpecReduce == InitReduce /\ [][NextReduce]_vars

----------------------------------------------------------------------------
(* The properties.                                                         *)

\* C1 (Spec): closure.  From scalars built by the public constructors, after
\* any sequence of add, sub, neg, double, mul, square, pow, pow_vartime,
\* invert and shr, the four limbs of every scalar, read as a 256-bit
\* little-endian integer, are strictly less than q.
C1_Closure == \A i \in 1 .. 3 : RefLess(Flat(reg[i]), RefQ)

C1_Witness == calls = <<"invert", "shr">> /\ reg[1] # reg[2]

\* The number that the bytes decoded denote in the byte order of the
\* decoding made.
Denoted ==
  IF dec[1].order = "le" THEN RefOfLeBytes(buf) ELSE RefOfBeBytes(buf)

\* C2 (SpecBytes): for every 32-byte input, from_le_bytes and from_be_bytes
\* return an empty result exactly when the number the bytes denote in that
\* byte order is at least q, and a present result otherwise: the encoding of
\* q - 1 is accepted, those of q, of q + 1 and of 2^256 - 1 are rejected.
C2_RejectsExactlyNonCanonical ==
  dec # <<>> =>
    /\ dec[1].res.is_some \in Choice
    /\ dec[1].res.is_some = 0 <=> ~RefLess(Denoted, RefQ)
    /\ Denoted = Flat(QMinus1) => dec[1].res.is_some = 1
    /\ Denoted \in {RefQ, RefAxpy(RefQ, 1, RefOne, 1, 0), Flat(MaxRaw)} =>
         dec[1].res.is_some = 0

C2_Witness ==
  /\ dec # <<>>
  /\ dec[1].order = "be"
  /\ buf = RefBeBytes(RefQ)
  /\ dec[1].res.is_some = 0

\* The bytes b in reverse order.
Reversed(b) == [j \in 1 .. Len(b) |-> b[Len(b) + 1 - j]]

\* C3 (SpecBytes): for every scalar a, from_le_bytes(to_le_bytes(a)) and
\* from_be_bytes(to_be_bytes(a)) are present and equal to a, and
\* to_be_bytes(a) is to_le_bytes(a) with the bytes reversed; the 32 bytes 0
\* decode to ZERO in both byte orders.
C3_BytesRoundTrip ==
  /\ src.kind = "to_le_bytes" => buf = to_le_bytes[src.a]
  /\ src.kind = "to_be_bytes" => buf = to_be_bytes[src.a]
  /\ src.kind # "input" =>
       /\ Len(to_le_bytes[src.a]) = 32
       /\ to_be_bytes[src.a] = Reversed(to_le_bytes[src.a])
  /\ (dec # <<>> /\ src.kind = "to_le_bytes" /\ dec[1].order = "le") =>
       dec[1].res = CtOption(src.a, 1)
  /\ (dec # <<>> /\ src.kind = "to_be_bytes" /\ dec[1].order = "be") =>
       dec[1].res = CtOption(src.a, 1)
  /\ (dec # <<>> /\ buf = Bytes(32, 0)) => dec[1].res = CtOption(ZERO, 1)

C3_Witness ==
  /\ src.kind = "to_be_bytes"
  /\ src.a = from_raw[MaxRaw]
  /\ dec # <<>>
  /\ dec[1].order = "be"
  /\ dec[1].res.is_some = 1

\* C4 (SpecPow): for a nonzero a, invert(a) is present, a * invert(a) is ONE
\* (as a scalar, and as numbers modulo q) and invert(invert(a)) is a;
\* invert(ONE) is ONE and invert(-ONE) is -ONE.
C4_InversionRoundTrip ==
  /\ (Len(inv) >= 1 /\ arg.self # ZERO) =>
       /\ inv[1].is_some = 1
       /\ mul[arg.self, inv[1].value] = ONE
       /\ RefMulMod(ref.a, RefMulMod(Flat(inv[1].value), RefRInv)) = RefOne
  /\ (Len(inv) = 2 /\ arg.self # ZERO) => inv[2] = CtOption(arg.self, 1)
  /\ (Len(inv) >= 1 /\ arg.self = ONE) => inv[1] = CtOption(ONE, 1)
  /\ (Len(inv) >= 1 /\ arg.self = neg[ONE]) => inv[1] = CtOption(neg[ONE], 1)

C4_Witness == Len(inv) = 2 /\ arg.self = neg[ONE] /\ step = 0

\* C5 (SpecPow): invert returns an empty result exactly when its input is
\* ZERO and a present one for every other scalar; every call returns a
\* well-formed CtOption (a scalar and a flag) and none aborts.
C5_InvertEmptyIffZero ==
  /\ \A k \in 1 .. Len(inv) : inv[k] \in [value : Scalar, is_some : Choice]
  /\ Len(inv) >= 1 => (inv[1].is_some = 0 <=> arg.self = ZERO)
  /\ Len(inv) = 2 => (inv[2].is_some = 0 <=> inv[1].value = ZERO)

C5_Witness ==
  Len(inv) = 1 /\ arg.self = ZERO /\ inv[1].is_some = 0 /\ step = 1

\* C6 (SpecPow): pow(a, e) and pow_vartime(a, e) return the same scalar, and
\* after each processed exponent bit the two accumulators are equal.
C6_PowEqualsPowVartime ==
  /\ acc = accv
  /\ step = 64 * Len(arg.by) =>
       /\ pow[arg.self, arg.by] = pow_vartime[arg.self, arg.by]
       /\ pow[arg.self, arg.by] = acc
       /\ pow_vartime[arg.self, arg.by] = accv

C6_Witness == step = 256 /\ arg.by = LargestRaw /\ acc # ONE

\* C7 (SpecPow): for a nonzero a, invert(a) = pow(a, q - 2)
\* = pow_vartime(a, q - 2), and this scalar is the Montgomery form of the
\* number a^(q-2) mod q.
C7_InvertIsPow ==
  (arg.self # ZERO /\ arg.by = QMinus2 /\ step = 64 * Len(arg.by)) =>
    /\ inv[1] = CtOption(pow[arg.self, QMinus2], 1)
    /\ inv[1] = CtOption(pow_vartime[arg.self, QMinus2], 1)
    /\ inv[1].value = acc
    /\ inv[1].value = accv
    /\ RefAxpy(ref.n, 2, RefOne, 1, 0) = RefQ
    /\ Flat(inv[1].value) = RefMulMod(ref.p, RefR)

C7_Witness ==
  step = 256 /\ arg.by = QMinus2 /\ arg.self = from_okm[Bytes(48, 255)]

\* C8 (SpecPow): pow(a, by) is a raised to the integer e that the limbs of
\* by denote, little-endian, scanned from the most significant bit: after
\* k bits the accumulator is the Montgomery form of a^n, n the number made
\* of the top k bits of e; pow(a, 0) is ONE for every a, ZERO included, and
\* pow(a, 1) is a.
C8_PowIsPower ==
  /\ Flat(arg.self) = RefMulMod(ref.a, RefR)
  /\ ref.n = RefShr(Flat(arg.by), 256 - step)
  /\ Flat(acc) = RefMulMod(ref.p, RefR)
  /\ step = 64 * Len(arg.by) =>
       /\ pow[arg.self, arg.by] = acc
       /\ arg.by = PowExponents[1] => acc = ONE
       /\ arg.by = PowExponents[2] => acc = arg.self

C8_Witness == step = 256 /\ arg.self = ZERO /\ acc = ONE /\ ref.n = RefZero

\* C9 (SpecField): for the scalars a, b, c of the registers: a + b = b + a;
\* (a + b) + c = a + (b + c); a + ZERO = a; a + (-a) = ZERO;
\* a - b = a + (-b); -ZERO = ZERO, with limbs 0 and not q; and (q - 1) + 1
\* is ZERO, for the limbs q - 1 and 1 and for the scalars -ONE and ONE.
C9_AdditiveLaws ==
  /\ add[reg[1], reg[2]] = add[reg[2], reg[1]]
  /\ add[add[reg[1], reg[2]], reg[3]] = add[reg[1], add[reg[2], reg[3]]]
  /\ add[reg[1], ZERO] = reg[1]
  /\ add[reg[1], neg[reg[1]]] = ZERO
  /\ sub[reg[1], reg[2]] = add[reg[1], neg[reg[2]]]
  /\ reg[1] = ZERO => Flat(neg[reg[1]]) = RefZero
  /\ Flat(reg[1]) = RefAxpy(RefQ, -1, RefOne, 1, 0) =>
       add[reg[1], Limbs(RefOne)] = ZERO
  /\ reg[1] = ONE => add[neg[reg[1]], reg[1]] = ZERO

C9_Witness == calls = <<"neg", "add">> /\ reg[1] = ZERO /\ reg[3] = ONE

\* C10 (SpecField): for the scalars a, b, c of the registers: a * b = b * a;
\* (a * b) * c = a * (b * c); a * ONE = a; a * ZERO = ZERO;
\* a * (b + c) = a * b + a * c.
C10_MultiplicativeLaws ==
  /\ mul[reg[1], reg[2]] = mul[reg[2], reg[1]]
  /\ mul[mul[reg[1], reg[2]], reg[3]] = mul[reg[1], mul[reg[2], reg[3]]]
  /\ mul[reg[1], ONE] = reg[1]
  /\ mul[reg[1], ZERO] = ZERO
  /\ mul[reg[1], add[reg[2], reg[3]]]
       = add[mul[reg[1], reg[2]], mul[reg[1], reg[3]]]

C10_Witness == calls = <<"mul", "mul">> /\ reg[1] # ZERO /\ reg[3] # ONE

\* The sum of a over the bits hi down to lo of the number e, most significant
\* first, by double and add alone: sum becomes 2 * sum + bit * a at each bit.
DoubleAndAdd[sum, a \in Scalar, e \in Seq(Nat), hi, lo \in 0 .. 255] ==
  IF hi = lo
  THEN IF RefBit(e, hi) = 1 THEN add[double[sum], a] ELSE double[sum]
  ELSE DoubleAndAdd[DoubleAndAdd[sum, a, e, hi, ((hi + lo) \div 2) + 1],
                    a, e, (hi + lo) \div 2, lo]

\* The canonical number of the scalar s, by reference arithmetic.
Canonical(s) == RefMulMod(Flat(s), RefRInv)

\* C11 (SpecMul): for the scalars a and b of the registers, the canonical
\* integer of mul(a, b), as to_raw gives it, is canonical(a) * canonical(b)
\* mod q, and mul(a, b) is the sum of a over the bits of canonical(b) made
\* with add and double alone.
C11_MulIsProduct ==
  /\ Flat(to_raw[mul[reg[1], reg[2]]])
       = RefMulMod(Canonical(reg[1]), Canonical(reg[2]))
  /\ Flat(to_raw[reg[2]]) = Canonical(reg[2])
  /\ mul[reg[1], reg[2]]
       = DoubleAndAdd[ZERO, reg[1], Flat(to_raw[reg[2]]), 255, 0]

C11_Witness ==
  /\ calls = <<"add", "mul">>
  /\ reg[1] # ZERO
  /\ Flat(to_raw[reg[1]]) = RefMulMod(Canonical(reg[2]), Canonical(reg[3]))

\* The eight limbs r0 .. r7 in the locals s.
Wide(s) ==
  <<s["r0"], s["r1"], s["r2"], s["r3"], s["r4"], s["r5"], s["r6"], s["r7"]>>

\* C12 (SpecMul): for every scalar a of the registers, square(a) has the
\* same four limbs as mul(a, a), and the eight limbs that square hands to
\* montgomery_reduce are those that mul hands to it.
C12_SquareIsMul ==
  \A i \in 1 .. 3 :
    /\ square[reg[i]] = mul[reg[i], reg[i]]
    /\ Wide(lets[frame(reg[i], ZERO, Unbound), "square", 1, Len(square_body)])
         = Wide(lets[frame(reg[i], reg[i], Unbound), "mul", 1, Len(mul_body)])

C12_Witness ==
  /\ calls = <<"add", "square">>
  /\ reg[1] = mul[reg[2], reg[2]]
  /\ reg[1] # ZERO

\* The number in hand, reduced modulo q by the reference arithmetic.
GivenModQ == RefReduce(RefOfWords(given.value))

\* C13 (SpecConv): from_u512, from_bytes_wide and Reduce<U512>::reduce of a
\* 512-bit unsigned integer n, given as eight little-endian limbs or as 64
\* little-endian bytes, return the valid scalar whose canonical value is
\* n mod q; q gives ZERO, 1 gives ONE, 2^256 gives the scalar with the limbs
\* R2, 2^512 - 1 gives R3 - R, and 3 * q + 3 gives 3.
C13_WideReductionExact ==
  /\ \A c \in 1 .. Len(conv) :
       given.kind = "U512"
       /\ conv[c].op \in {"from_u512", "from_bytes_wide", "reduce"}
       => /\ conv[c].out.kind = "return"
          /\ conv[c].out.value \in Scalar
          /\ RefLess(Flat(conv[c].out.value), RefQ)
          /\ Canonical(conv[c].out.value) = GivenModQ
  /\ LET Gives(d, s) ==
           /\ from_u512[RefWords(d)] = s
           /\ fn_reduce_U512(RefWords(d)) = s
           /\ from_bytes_wide[RefLeString(d)] = s
     IN /\ Gives(RefPad(RefQ, 32), ZERO)
        /\ Gives(RefPad(<<1>>, 32), ONE)
        /\ Gives(RefPow2(256, 32), R2)
        /\ Gives(RefAllOnes(32), sub[R3, R])
        /\ Gives(ThreeQPlus3, from_u64[U64(0, 0, 0, 3)])

\* C13 happens: 2^512 - 1 reduced by from_bytes_wide to R3 - R, which is
\* neither its low nor its high 256 bits.
C13_Witness ==
  /\ given = Has("U512", RefWords(RefAllOnes(32)))
  /\ conv = <<[op |-> "from_bytes_wide", out |-> Returns(sub[R3, R])]>>
  /\ sub[R3, R] # from_raw[MaxRaw]

\* The bytes of the number d of n digits, most significant first.
RefBeString(d) == [j \in 1 .. 2 * Len(d) |-> RefByte(d, 2 * Len(d) + 1 - j)]

\* C14 (SpecConv): from_okm of 48 bytes, and Reduce<U384>::reduce of the
\* 384-bit unsigned integer that the bytes denote big-endian, return the valid
\* scalar whose canonical value is that integer modulo q, which is
\* high192 * 2^192 + low192 modulo q for the integers of the first and the
\* last 24 bytes; F_2_192 is the Montgomery form of 2^192; and
\* reduce(4 * q + 1) is ONE.
C14_OkmReductionExact ==
  /\ \A c \in 1 .. Len(conv) :
       given.kind = "U384" /\ conv[c].op \in {"from_okm", "reduce"}
       => LET bytes == RefBeString(RefOfWords(given.value))
              high192 == RefOfBeString(SubSeq(bytes, 1, 24))
              low192 == RefOfBeString(SubSeq(bytes, 25, 48))
          IN /\ conv[c].out = Returns(from_okm[bytes])
             /\ from_okm[bytes] \in Scalar
             /\ RefLess(Flat(from_okm[bytes]), RefQ)
             /\ Canonical(from_okm[bytes]) = GivenModQ
             /\ Canonical(from_okm[bytes])
                = RefAddMod(RefMulMod(RefReduce(high192), RefPow2(192, 16)),
                            RefReduce(low192))
  /\ F_2_192 = Limbs(RefMulMod(RefPow2(192, 16), RefR))
  /\ fn_reduce_U384(RefWords(FourQPlus1)) = ONE

\* C14 happens: 4 * q + 1, which is above 2^256, reduced to ONE.
C14_Witness ==
  /\ given = Has("U384", RefWords(FourQPlus1))
  /\ conv = <<[op |-> "reduce", out |-> Returns(ONE)]>>
  /\ RefOfBeString(SubSeq(Uint_to_be_bytes(given.value), 1, 24))
     # RefPad(<<>>, 12)

\* C15 (SpecConv): every conversion of a 384-bit unsigned integer n into a
\* scalar, Scalar::from(U384), Scalar::from(GenericArray<u8, U48>) of the
\* big-endian bytes of n, and Reduce<U384>::reduce, yields the valid scalar
\* whose canonical value is n mod q, so that the three agree, for n of 2^256
\* and more too.
C15_From384IsReduction ==
  \A c \in 1 .. Len(conv) :
    given.kind = "U384"
    /\ conv[c].op \in {"Scalar::from", "Scalar::from(GenericArray)", "reduce"}
    => /\ conv[c].out.kind = "return"
       /\ RefLess(Flat(conv[c].out.value), RefQ)
       /\ Canonical(conv[c].out.value) = GivenModQ
       /\ conv[c].out.value = fn_reduce_U384(given.value)

\* C16 (SpecConv): Scalar::from(U256), which goes through
\* Reduce<U256>::reduce and from_okm, yields for every 256-bit unsigned
\* integer n the valid scalar whose canonical value is n mod q, and
\* Scalar::from(U256::from(s)) is s for every scalar s.
C16_U256ValuePreserving ==
  \A c \in 1 .. Len(conv) :
    given.kind = "U256" /\ conv[c].op \in {"Scalar::from", "reduce"}
    => /\ conv[c].out.kind = "return"
       /\ RefLess(Flat(conv[c].out.value), RefQ)
       /\ Canonical(conv[c].out.value) = GivenModQ
       /\ given.of # <<>> => conv[c].out.value = given.of

\* C17 (SpecConv): on a 64-bit target U384::from(s) and U512::from(s) hold
\* the canonical integer of the scalar s, zero-extended, in little-endian
\* word order, and Scalar::from(U384::from(s)) and Scalar::from(U512::from(s))
\* are s.
C17_WideRoundTrip ==
  given.kind \in {"U384", "U512"} /\ given.of # <<>>
  => /\ RefOfWords(given.value)
        = RefPad(Canonical(given.of), 4 * Len(given.value))
     /\ \A c \in 1 .. Len(conv) :
          conv[c].op = "Scalar::from" => conv[c].out = Returns(given.of)

\* (q - 1) / 2, which is q >> 1
RefHalfQ == Flat(HALF_MODULUS)

\* C18 (SpecConv): is_high(a) is true exactly when the canonical integer of
\* the valid scalar a, as to_raw gives it, is greater than q >> 1 =
\* (q - 1) / 2; is_high of the scalars 1, 2 and 3 is false and is_high(-ONE)
\* is true.
C18_IsHighComparesValue ==
  /\ \A c \in 1 .. Len(conv) :
       conv[c].op = "is_high"
       => /\ conv[c].out.kind = "return"
          /\ conv[c].out.value = 1
             <=> RefLess(RefHalfQ, Flat(to_raw[given.value]))
  /\ RefAxpy(RefHalfQ, 1, RefHalfQ, 1, 1) = RefQ
  /\ \A k \in 1 .. 3 : fn_is_high(from_u64[U64(0, 0, 0, k)]) = 0
  /\ fn_is_high(neg[ONE]) = 1

\* C19 (SpecConv): no operation that decodes 32 bytes or a hexadecimal string
\* into a scalar panics: from_le_bytes, from_be_bytes,
\* From<GenericArray<u8, U32>> for Scalar and ScalarLe::deserialize report an
\* input that is not canonical (q or more) or is malformed by a value the
\* caller inspects, an empty CtOption or an Err.
C19_DecodingNeverPanics ==
  \A c \in 1 .. Len(conv) :
    given.kind \in {"[u8; 32]", "&str"}
    => /\ conv[c].out.kind \in {"return", "Ok", "Err"}
       /\ conv[c].op = "from_le_bytes"
          => (conv[c].out.value.is_some = 0
              <=> ~RefLess(RefOfLeBytes(given.value), RefQ))
       /\ conv[c].op = "from_be_bytes"
          => (conv[c].out.value.is_some = 0
              <=> ~RefLess(RefOfBeBytes(given.value), RefQ))

\* t, for the table (t - 1) / 2 that sqrt passes
RefT == RefAxpy(Flat(tm1d2), 1, Flat(tm1d2), 1, 1)

\* Euler's criterion: a below q is a quadratic residue modulo q, zero
\* included, when a is 0 or a^((q - 1) / 2) is 1.
IsResidue(a) ==
  a = RefZero \/ RefPowMod[RefOne, a, RefHalfQ, 255, 0] = RefOne

\* C20 (SpecConv): sqrt(a) is present exactly when the valid scalar a is a
\* quadratic residue modulo q, zero included; a present sqrt(a) is a valid
\* scalar with sqrt(a) * sqrt(a) = a; sqrt(ZERO) is ZERO; and the exponent
\* table passed to Tonelli-Shanks is (t - 1) / 2 for q - 1 = t * 2^32 with t
\* odd.
C20_SqrtIsSquareRoot ==
  /\ \A c \in 1 .. Len(conv) :
       conv[c].op = "sqrt"
       => LET r == conv[c].out.value
          IN /\ conv[c].out.kind = "return"
             /\ r.is_some = 1 <=> IsResidue(Canonical(given.value))
             /\ r.is_some = 1
                => /\ r.value \in Scalar
                   /\ RefLess(Flat(r.value), RefQ)
                   /\ mul[r.value, r.value] = given.value
                   /\ RefMulMod(Canonical(r.value), Canonical(r.value))
                      = Canonical(given.value)
             /\ given.value = ZERO => r = CtOption(ZERO, 1)
  /\ RefAxpy(RefHalfQ, 1, RefHalfQ, 1, 0) = RefAxpy(RefQ, -1, RefOne, 1, 0)
  /\ RefT[1] % 2 = 1
  /\ <<0, 0>> \o SubSeq(RefT, 1, 14) = RefAxpy(RefQ, -1, RefOne, 1, 0)
  /\ RefT[15] = 0 /\ RefT[16] = 0

\* C20 happens: a square root that is present and is neither 0 nor 1, and
\* one that is absent.
C20_Witness ==
  /\ given.kind = "Scalar"
  /\ conv # <<>>
  /\ conv[1].op = "sqrt"
  /\ conv[1].out.value.is_some = 1
  /\ conv[1].out.value.value \notin {ZERO, ONE}
  /\ mul[conv[1].out.value.value, conv[1].out.value.value] = given.value
  /\ sqrt[from_u64[U64(0, 0, 0, 7)]].is_some = 0

\* The scalar in hand was made of a small integer by From<u32> or From<u64>.
OfSmallInteger(g) ==
  g.kind = "Scalar" /\ g.by \in {"From<u32>", "From<u64>"}

\* C21: for every u32 or u64 value v, Scalar::from(v) is a valid scalar,
\* to_raw of it is [v, 0, 0, 0] and to_le_bytes of it is the little-endian
\* bytes of v followed by zeros; for v that is not 0, to_be_bytes of
\* -Scalar::from(v) is the big-endian encoding of q - v (the encoding of 3
\* has 0x03 at offset 0).
C21_SmallIntegers ==
  /\ OfSmallInteger(given) =>
       /\ given.value \in Scalar
       /\ RefLess(Flat(given.value), RefQ)
       /\ \A c \in 1 .. Len(conv) :
            /\ conv[c].op = "to_raw" =>
                 conv[c].out
                   = <<RefPad(given.of.value, 4), ZeroU64, ZeroU64, ZeroU64>>
            /\ conv[c].op = "to_le_bytes" =>
                 /\ conv[c].out
                      = [j \in 1 .. 32 |->
                           IF j <= 2 * Len(given.of.value)
                           THEN RefByte(given.of.value, j) ELSE 0]
                 /\ given.of.value \in {U64(0, 0, 0, 3), <<3, 0>>} =>
                      conv[c].out[1] = 3
  /\ (given.by = "neg" /\ OfSmallInteger(given.of)) =>
       /\ RefLess(Flat(given.value), RefQ)
       /\ \A c \in 1 .. Len(conv) :
            (/\ conv[c].op = "to_be_bytes"
             /\ RefPad(given.of.of.value, 16) # RefZero) =>
              /\ RefLess(RefOfBeBytes(conv[c].out), RefQ)
              /\ RefAxpy(RefOfBeBytes(conv[c].out), 1,
                         RefPad(given.of.of.value, 16), 1, 0) = RefQ

\* -Scalar::from(3u64) has been encoded with to_be_bytes.
C21_Witness ==
  /\ given.by = "neg"
  /\ given.of.by = "From<u64>"
  /\ given.of.of.value = U64(0, 0, 0, 3)
  /\ conv # <<>>
  /\ conv[1].op = "to_be_bytes"

\* The lowercase hexadecimal digits, and the bytes that a string of them
\* denotes two characters at a time.
RefHexDigits ==
  <<"0", "1", "2", "3", "4", "5", "6", "7", "8", "9",
    "a", "b", "c", "d", "e", "f">>

RefHexBytes(s) ==
  [j \in 1 .. Len(s) \div 2 |->
     16 * ((CHOOSE v \in 1 .. 16 : RefHexDigits[v] = s[2 * j - 1]) - 1)
     + (CHOOSE v \in 1 .. 16 : RefHexDigits[v] = s[2 * j]) - 1]

\* C22: for every valid scalar a, the LowerHex, Debug and Display renderings
\* are exactly the 64 lowercase hexadecimal digits of to_be_bytes(a),
\* from_be_hex of that string is present and equals a, and from_le_hex of the
\* hexadecimal digits of to_le_bytes(a) is present and equals a; a string of
\* hexadecimal digits that denotes an integer of q or more decodes to empty.
C22_HexRoundTrip ==
  /\ given.by \in {"{:x}", "{:?}", "{}"} =>
       /\ Len(given.value) = 64
       /\ \A j \in 1 .. 64 : \E v \in 1 .. 16 : RefHexDigits[v] = given.value[j]
       /\ RefHexBytes(given.value) = to_be_bytes[given.of.value]
       /\ given.of.value = ZERO => given.value = [j \in 1 .. 64 |-> "0"]
       /\ given.of.value = ONE =>
            given.value = [j \in 1 .. 64 |-> IF j = 64 THEN "1" ELSE "0"]
       /\ \A c \in 1 .. Len(conv) :
            conv[c].op = "from_be_hex" =>
              conv[c].out = CtOption(given.of.value, 1)
  /\ given.by = "hex::encode(to_le_bytes)" =>
       /\ RefHexBytes(given.value) = to_le_bytes[given.of.value]
       /\ \A c \in 1 .. Len(conv) :
            conv[c].op = "from_le_hex" =>
              conv[c].out = CtOption(given.of.value, 1)
  /\ given.by = "input" =>
       \A c \in 1 .. Len(conv) :
         /\ conv[c].op = "from_be_hex" =>
              (conv[c].out.is_some = 0
                 <=> ~RefLess(RefOfBeBytes(RefHexBytes(given.value)), RefQ))
         /\ conv[c].op = "from_le_hex" =>
              (conv[c].out.is_some = 0
                 <=> ~RefLess(RefOfLeBytes(RefHexBytes(given.value)), RefQ))

\* test_hex: format!("{:x}", R2) has been decoded with from_be_hex.
C22_Witness ==
  /\ given.by = "{:x}"
  /\ given.of.value = R2
  /\ conv # <<>>
  /\ conv[1].op = "from_be_hex"

\* C23: ScalarLe::serialize emits, for a human-readable serializer, the
\* 64-digit lowercase hexadecimal string of to_le_bytes(s) and, for a binary
\* serializer, the raw 32 little-endian bytes, while the default
\* serialization emits the hexadecimal string of to_be_bytes(s); for every
\* valid scalar s, ScalarLe::deserialize of ScalarLe::serialize(s) is s in
\* both modes, and an encoding of a value of q or more deserializes to an
\* error.
C23_LittleEndianSerialization ==
  /\ (given.by = "ScalarLe::serialize" /\ given.kind = "le hex") =>
       /\ Len(given.value) = 64
       /\ \A j \in 1 .. 64 : \E v \in 1 .. 16 : RefHexDigits[v] = given.value[j]
       /\ RefHexBytes(given.value) = to_le_bytes[given.of.value]
       /\ given.of.value = ONE =>
            given.value
              = [j \in 1 .. 64 |-> IF j = 2 THEN "1" ELSE "0"]
  /\ (given.by = "ScalarLe::serialize" /\ given.kind = "[u8; 32]") =>
       given.value = to_le_bytes[given.of.value]
  /\ given.by = "ScalarLe::serialize" =>
       \A c \in 1 .. Len(conv) :
         conv[c].op = "ScalarLe::deserialize" =>
           conv[c].out = [kind |-> "Ok", value |-> given.of.value]
  /\ given.by = "Serialize::serialize" =>
       /\ Len(given.value) = 64
       /\ RefHexBytes(given.value) = to_be_bytes[given.of.value]
       /\ given.of.value = ONE =>
            given.value
              = [j \in 1 .. 64 |-> IF j = 64 THEN "1" ELSE "0"]
  /\ given.by = "input" =>
       \A c \in 1 .. Len(conv) :
         conv[c].op = "ScalarLe::deserialize" =>
           LET bytes == IF given.kind = "le hex"
                        THEN RefHexBytes(given.value) ELSE given.value
           IN ~RefLess(RefOfLeBytes(bytes), RefQ) => conv[c].out.kind = "Err"

\* test_le_serialize: ONE has been serialized for a human-readable
\* serializer and the string deserialized.
C23_Witness ==
  /\ given.by = "ScalarLe::serialize"
  /\ given.kind = "le hex"
  /\ given.of.value = ONE
  /\ conv # <<>>
  /\ conv[1].op = "ScalarLe::deserialize"

\* a >> n as far as the loop has come: tmp is self * (2^-1)^iterations, the
\* iterations made and those to come are n, and at the return n iterations
\* were made; n doublings of the result give self back.
ShrHalves ==
  /\ exec.iterations + exec.rhs = exec.by
  /\ RefLess(Flat(exec.tmp), RefQ)
  /\ RefMulMod(Canonical(exec.tmp), RefPow2(exec.iterations, 16))
       = Canonical(exec.self)
  /\ exec.returned =>
       /\ exec.iterations = exec.by
       /\ exec.rhs = 0
       /\ exec.tmp = shr[exec.self, exec.by]
       /\ Len(calls) = exec.by => reg[1] = exec.self
       /\ exec.by = 1 =>
            /\ \A i \in Constructors :
                 exec.self = add[Constructed(i), Constructed(i)] =>
                   exec.tmp = Constructed(i)
            /\ exec.self = from_u64[U64(0, 0, 0, 96)] =>
                 exec.tmp = from_u64[U64(0, 0, 0, 48)]

\* C24: for every valid scalar a and every n >= 0, the loop of a >> n
\* terminates after exactly n iterations and returns a * (2^-1)^n, so that
\* doubling the result n times gives back a; in particular (a + a) >> 1 is a
\* and Scalar::from(96) >> 1 is Scalar::from(48).
C24_ShrIsHalving == []ShrHalves /\ <>(exec.returned)

\* test_shr: Scalar::from(96) >> 1 has returned after one iteration.
C24_Witness ==
  /\ exec.returned
  /\ exec.self = from_u64[U64(0, 0, 0, 96)]
  /\ exec.by = 1
  /\ exec.iterations = 1

\* C25: the constants satisfy their defining relations for the modulus q:
\* INV * q[0] is -1 modulo 2^64; R, R2 and R3 are 2^256, 2^512 and 2^768
\* modulo q; HALF_MODULUS is q >> 1; 2 * TWO_INV is ONE;
\* ROOT_OF_UNITY * ROOT_OF_UNITY_INV is ONE; ROOT_OF_UNITY^(2^S) is ONE with
\* S = 32 while ROOT_OF_UNITY^(2^(S - 1)) is not; DELTA^t is ONE where
\* q - 1 = t * 2^S.
C25_ConstantsRelations ==
  /\ Flat(MODULUS) = RefQ
  /\ wrapping_mul[INV, MODULUS[1]] = MaxU64
  /\ Flat(R) = RefReduce(RefPow2(256, 20))
  /\ Flat(R2) = RefMulMod(Flat(R), Flat(R))
  /\ Flat(R3) = RefMulMod(Flat(R2), Flat(R))
  /\ Flat(HALF_MODULUS) = RefShr(RefQ, 1)
  /\ mul[from_u64[U64(0, 0, 0, 2)], TWO_INV] = ONE
  /\ add[TWO_INV, TWO_INV] = ONE
  /\ mul[ROOT_OF_UNITY, ROOT_OF_UNITY_INV] = ONE
  /\ S = 32
  /\ RefShr(RefQ, S) = Flat(TOfTest)
  /\ \A i \in 1 .. S - 1 : RefBit(RefQ, i) = 0
  /\ RefBit(RefQ, 0) = 1
  /\ RefBit(Flat(TOfTest), 0) = 1
  /\ step = 256 =>
       /\ (arg.self = ROOT_OF_UNITY /\ arg.by = TwoToS) =>
            acc = ONE /\ ref.p = RefOne
       /\ (arg.self = ROOT_OF_UNITY /\ arg.by = TwoToSMinus1) =>
            acc # ONE /\ ref.p # RefOne
       /\ (arg.self = DELTA /\ arg.by = TOfTest) =>
            acc = ONE /\ ref.p = RefOne
       /\ acc = accv
       /\ Flat(acc) = RefMulMod(ref.p, RefR)

\* test_constants: DELTA has been raised to t.
C25_Witness == step = 256 /\ arg.self = DELTA /\ arg.by = TOfTest /\ acc = ONE

\* C26: for any two scalars a and b reachable through the public API, a == b
\* (ct_eq over all four limbs) holds if and only if to_le_bytes(a) is
\* to_le_bytes(b); no two distinct limb tuples reachable through the API
\* denote the same field value.
C26_EqualityIsValueEquality ==
  \A i, j \in 1 .. 3 :
    /\ fn_eq(reg[i], reg[j]) <=> to_le_bytes[reg[i]] = to_le_bytes[reg[j]]
    /\ ct_eq[reg[i], reg[j]] \in Choice
    /\ reg[i] # reg[j] => Canonical(reg[i]) # Canonical(reg[j])
    /\ RefOfLeBytes(to_le_bytes[reg[i]]) = Canonical(reg[i])

\* Two registers hold the same scalar, made in different ways, and the third
\* another one.
C26_Witness ==
  /\ calls = <<"neg", "neg">>
  /\ reg[1] = reg[3]
  /\ reg[1] # reg[2]
  /\ reg[1] # ZERO

\* The names of the limbs r0 .. r7.
LimbNames == <<"r0", "r1", "r2", "r3", "r4", "r5", "r6", "r7">>

\* The number that the locals hold after round i, in units of 2^(64 * i):
\* the limbs ri .. r7 and, at 2^256, the carry still to be added (carry2, or
\* after the last round the carry out of r7).
RoundValue(s, i) ==
  RefAxpy(RefOfWords([j \in 1 .. 8 |->
                        IF j <= 8 - i THEN s[LimbNames[i + j]] ELSE ZeroU64]),
          1,
          RefOfWords([j \in 1 .. 8 |->
                        IF j = 5 THEN (IF i = 4 THEN s["_"] ELSE s["carry2"])
                        ELSE ZeroU64]),
          1, 0)

\* montgomery_reduce as far as it has come: the multiplier of each round is
\* the low limb times INV and clears the low limb; after each round the
\* locals times 2^(64 * i) are T modulo q, so that no carry was lost; after
\* the last round no carry leaves r7 and r4 .. r7 are below 2 * q; the
\* scalar returned is below q and, times 2^256, T modulo q.
ReduceRounds ==
  /\ RefLess(RefOfWords(SubSeq(exec.T, 5, 8)), RefQ)
  /\ exec.pc % 6 = 2 =>
       /\ exec.s["k"]
            = wrapping_mul[exec.s[LimbNames[(exec.pc \div 6) + 1]], INV]
       /\ exec.s["_"] = ZeroU64
  /\ (exec.pc % 6 = 0 /\ exec.pc > 0) =>
       RefMulMod(RefReduce(RoundValue(exec.s, exec.pc \div 6)),
                 IF exec.pc = 24 THEN RefR ELSE RefPow2(64 * (exec.pc \div 6), 16))
         = RefReduce(RefOfWords(exec.T))
  /\ exec.pc = 24 =>
       /\ exec.s["_"] = ZeroU64
       /\ RefLess(RefOfWords(<<exec.s["r4"], exec.s["r5"], exec.s["r6"],
                               exec.s["r7"]>>),
                  RefAxpy(RefQ, 1, RefQ, 1, 0))
  /\ exec.returned # <<>> =>
       /\ RefLess(Flat(exec.returned[1]), RefQ)
       /\ RefMulMod(Flat(exec.returned[1]), RefR)
            = RefReduce(RefOfWords(exec.T))
       /\ exec.returned[1]
            = montgomery_reduce[exec.T[1], exec.T[2], exec.T[3], exec.T[4],
                                exec.T[5], exec.T[6], exec.T[7], exec.T[8]]

\* C27: for every 8-limb input T below q * 2^256, each of the four rounds of
\* montgomery_reduce adds k * q with k = (current low limb * INV) mod 2^64 so
\* that the low limb becomes zero, no carry is lost across rounds (the final
\* carry into r7 included), the top four limbs before the final subtraction
\* are below 2 * q, and the scalar returned is the value below q congruent
\* to T * 2^-256 modulo q; hence to_raw(from_raw(v)) is v mod q for every
\* 256-bit v, from_raw(q) is ZERO and from_raw(1) is ONE.
C27_MontgomeryReduce ==
  /\ ReduceRounds
  /\ (exec.call = "from_raw" /\ exec.returned # <<>>) =>
       /\ exec.returned[1] = from_raw[exec.v]
       /\ Canonical(exec.returned[1]) = RefReduce(Flat(exec.v))
       /\ exec.v = MODULUS => exec.returned[1] = ZERO
       /\ exec.v = <<OneU64, ZeroU64, ZeroU64, ZeroU64>> =>
            exec.returned[1] = ONE /\ exec.returned[1] = R
       /\ RefReduce(Flat(exec.v)) = RefReduce(Flat(MaxRaw)) =>
            exec.returned[1] = from_raw[MaxRaw]
  /\ (exec.call = "to_raw" /\ exec.returned # <<>>) =>
       /\ Flat(exec.returned[1]) = RefReduce(Flat(exec.v))
       /\ exec.returned[1] = to_raw[from_raw[exec.v]]

\* to_raw(from_raw([0xffff_ffff_ffff_ffff; 4])) has returned.
C27_Witness ==
  /\ exec.call = "to_raw"
  /\ exec.v = MaxRaw
  /\ exec.returned # <<>>
  /\ exec.returned[1] # MaxRaw

\* The number of the operations op in the sequence ops.
Count(ops, op) == Cardinality({k \in 1 .. Len(ops) : ops[k] = op})

\* C28: for every base a and any two exponents, pow executes the same
\* sequence of field operations: exactly 256 iterations, each one square
\* followed by one multiply by the base and one conditional_assign, so that
\* the operations executed after `step` iterations are fixed by step alone;
\* pow_vartime executes 256 squares and exactly popcount(e) multiplies; and
\* invert executes the same fixed sequence of squares and multiplies for
\* every input, ZERO included.
C28_ExponentIndependentTrace ==
  /\ step <= 256
  /\ trace.pow
       = [k \in 1 .. 3 * step |->
            <<"square", "mul", "conditional_assign">>[((k - 1) % 3) + 1]]
  /\ Count(trace.pow_vartime, "square") = step
  /\ Count(trace.pow_vartime, "mul")
       = Cardinality({k \in 0 .. step - 1 :
                        RefBit(Flat(arg.by), 255 - k) = 1})
  /\ Len(trace.pow_vartime)
       = Count(trace.pow_vartime, "square") + Count(trace.pow_vartime, "mul")
  /\ \A c \in 1 .. Len(trace.invert) :
       /\ trace.invert[c] = fn_invert_ops(ZERO)
       /\ Count(trace.invert[c], "square") + Count(trace.invert[c], "mul") + 1
            = Len(trace.invert[c])

\* pow and pow_vartime have ended for the exponent q - 2 and a base that was
\* inverted, and pow_vartime has executed fewer operations than pow.
C28_Witness ==
  /\ step = 256
  /\ arg.by = QMinus2
  /\ Len(trace.invert) = 2
  /\ Len(trace.pow) = 768
  /\ Len(trace.pow_vartime) < 512

\* C29: is_high(ZERO) is false, and for every valid scalar a that is not
\* zero exactly one of is_high(a) and is_high(-a) is true.
C29_IsHighIsSignPartition ==
  \A c \in 1 .. Len(conv) :
    conv[c].op = "is_high" =>
      /\ conv[c].out \in Choice
      /\ given.value = ZERO => conv[c].out = 0
      /\ given.value # ZERO =>
           conv[c].out + fn_is_high(neg[given.value]) = 1
      /\ (given.by = "neg" /\ given.value # ZERO) =>
           /\ given.of.value # ZERO
           /\ conv[c].out + fn_is_high(given.of.value) = 1

\* is_high(-a) is true for a not zero with is_high(a) false: the caller has
\* negated Scalar::from(1u64).
C29_Witness ==
  /\ given.by = "neg"
  /\ given.of.by = "From<u64>"
  /\ given.of.of.value = U64(0, 0, 0, 1)
  /\ conv # <<>>
  /\ conv[1].op = "is_high"
  /\ conv[1].out = 1

====
